---- MODULE Spec2Model ----
(***************************************************************************)
(* mini-dynamo: a Dynamo-style eventually consistent key-value store.      *)
(*                                                                         *)
(* The module holds three state machines over one set of variables:        *)
(*   SpecLWW    two MemStores fed the same records in different orders     *)
(*              (internal/store: Newer, PutLWW);                           *)
(*   SpecStore  one node's MemStore with its WAL file, its snapshot file,  *)
(*              kill and the startup sequence (internal/store, cmd/node);  *)
(*   Spec       the cluster: coordinators, replicas, hints, hand-off,      *)
(*              read-repair and anti-entropy (internal/coordinator,        *)
(*              internal/ring, internal/hints, cmd/node).                  *)
(* Each specification leaves the variables of the others unchanged.        *)
(***************************************************************************)
EXTENDS Integers, Sequences, FiniteSets, TLC

VARIABLES
    \* ---- SpecLWW
    lwwSet,      \* the set of records both stores are given
    lwwA,        \* MemStore.m of store A
    lwwB,        \* MemStore.m of store B
    todoA,       \* records not yet given to A
    todoB,       \* records not yet given to B
    \* ---- SpecStore
    m,           \* MemStore.m : key -> Record (a Go map: DOMAIN m is the key set)
    walFile,     \* the kv WAL file: a sequence of JSON lines
    walF,        \* WAL.f # nil : the append handle is open
    snapFile,    \* the snapshot file kv_<id>.snap.json
    tmpFile,     \* the temporary file <snapshot>.tmp of writeFileAtomic
    running,     \* the node process is alive
    snapPc,      \* position inside SnapshotAndResetWAL ("idle" outside)
    snapB,       \* the bytes json.Marshal(s.m) produced for the running snapshot
    calls,       \* number of store calls made so far (bounds the run)
    hist,        \* history: what the claims about the store refer to
    \* ---- Spec (the cluster)
    cfg,         \* ClusterConfig: nodes, vnodes, n, r, w (nodes.json)
    ring,        \* Ring.VNodes, built once by ring.New
    up,          \* the nodes whose process runs and is reachable
    store,       \* node -> MemStore.m
    disk,        \* node -> what snapshot + WAL of the node recover to
    hints,       \* node -> Manager.m, as <<target, key>> -> Record
    op,          \* the client request being coordinated (PutRecord / Get)
    gor,         \* the fan-out goroutines of op that have not run yet
    ch,          \* the result channel of op
    net,         \* replica puts in flight outside a request: read-repair, hand-off, cancelled calls
    aeNext,      \* node -> next of the anti-entropy loop
    cnt,         \* counters that bound the run
    \* ---- SpecHints (one hints.Manager and its WAL)
    hintM,       \* Manager.m, as <<target, key>> -> Record
    hintWal,     \* the file at walPath: a sequence of walEntry lines
    hintWalFile, \* Manager.walFile # nil
    hintTmp,     \* the file walPath + ".tmp" of compactLocked
    hintPend,    \* Add calls between their unlock and their appendWAL
    hintLoop,    \* position of the handoff loop goroutine
    hintCnt,     \* counters that bound the run
    hintHist,    \* history: what the claims about the manager refer to
    \* ---- SpecAE (the anti-entropy loops)
    ae,          \* node -> its -ae-max flag and the tick of runAntiEntropyOnce in progress
    \* ---- SpecStartup (main up to ListenAndServe)
    boot,        \* the configuration file, the -id flag and how far main has come
    \* ---- SpecFanout (the replica goroutines of one PutRecord or Get)
    fan,         \* the result channel, the goroutines and the coordinator's loop
    \* ---- SpecRing (the rings the nodes build, and a lookup on each)
    rq           \* the node list and vnodes, each node's ring, and the lookup's answers

storeVars == <<m, walFile, walF, snapFile, tmpFile, running, snapPc, snapB, calls, hist>>
lwwVars == <<lwwSet, lwwA, lwwB, todoA, todoB>>
clusterVars == <<cfg, ring, up, store, disk, hints, op, gor, ch, net, aeNext, cnt>>
hintVars == <<hintM, hintWal, hintWalFile, hintTmp, hintPend, hintLoop, hintCnt, hintHist>>
auxVars == <<ae, boot, fan, rq>>
vars == <<lwwVars, storeVars, clusterVars, hintVars, auxVars>>

-----------------------------------------------------------------------------
(* Bounds of the model. *)

\* Timestamps (time.Now().UnixNano()) are drawn from 1..MaxTs.
MaxTs == 2
\* Records handed to the two stores of SpecLWW.
MaxLwwRecs == 3
\* Store calls (PutLWW, SnapshotAndResetWAL) in one run of SpecStore.
MaxCalls == 3
\* Kills of the node process in one run of SpecStore.
MaxKills == 2
\* Client requests (PUT, DELETE, GET) in one run of Spec.
MaxOps == 2
\* Node crashes in one run of Spec.
MaxCrashes == 1
\* Client requests in one run of SpecRead.
MaxReadOps == 3
\* Node crashes in one run of SpecSloppy.
MaxSloppyCrashes == 2
\* Client writes in one run of SpecHandoff.
MaxHandoffOps == 2
\* WAL appends that fail in one run of Spec.
MaxAppendFails == 1
\* Anti-entropy ticks in one run of Spec.
MaxAeTicks == 1

-----------------------------------------------------------------------------
(* Records (internal/store/store.go). *)

\* A []byte value: nil, empty but not nil, or some bytes.
NilValue == "<nil>"
EmptyValue == ""

\* Node ids in lexicographic order; Go compares WriterID strings with >=.
NodeIds == <<"n1", "n2", "n3", "n4">>

IdRank(id) == CHOOSE i \in 1..Len(NodeIds) : NodeIds[i] = id

Record(key, value, ts, writer, deleted) ==
    [key |-> key, value |-> value, ts |-> ts, writer_id |-> writer, deleted |-> deleted]

\* bytes.Equal: nil and empty slices are equal.
BytesEqual(a, b) ==
    \/ a = b
    \/ {a, b} \subseteq {NilValue, EmptyValue}

\* The mutant of Newer: the record that arrives wins (no version comparison).
NewerArrivalWins(a, b) == b

\* store.Newer: higher Ts wins; on a tie the higher WriterID; on a full tie a.
Newer(a, b) ==
    IF a.ts > b.ts THEN a
    ELSE IF b.ts > a.ts THEN b
    ELSE IF IdRank(a.writer_id) >= IdRank(b.writer_id) THEN a
    ELSE b

\* coordinator.sameVersion
sameVersion(a, b) == a.ts = b.ts /\ a.writer_id = b.writer_id

\* The version order <v of the data model: (ts, then writer_id).
VersionLess(a, b) ==
    \/ a.ts < b.ts
    \/ a.ts = b.ts /\ IdRank(a.writer_id) < IdRank(b.writer_id)

VersionGeq(a, b) == ~VersionLess(a, b)

\* Two records equal in every field, values compared as bytes.
RecEq(a, b) ==
    /\ a.key = b.key
    /\ a.ts = b.ts
    /\ a.writer_id = b.writer_id
    /\ a.deleted = b.deleted
    /\ BytesEqual(a.value, b.value)

EmptyMap == [k \in {} |-> 0]

MapPut(mp, key, rec) ==
    [k \in DOMAIN mp \cup {key} |-> IF k = key THEN rec ELSE mp[k]]

-----------------------------------------------------------------------------
(* JSON encoding of a Record (struct tags of store.Record). *)

Omitted == "<omitted>"

\* json.Marshal(Record): value is base64 and omitted when empty (omitempty).
MarshalRecord(r) ==
    [key |-> r.key,
     value |-> IF r.value \in {NilValue, EmptyValue} THEN Omitted ELSE r.value,
     ts |-> r.ts, writer_id |-> r.writer_id, deleted |-> r.deleted]

\* json.Unmarshal into a Record: an omitted value decodes to nil.
UnmarshalRecord(j) ==
    [key |-> j.key,
     value |-> IF j.value = Omitted THEN NilValue ELSE j.value,
     ts |-> j.ts, writer_id |-> j.writer_id, deleted |-> j.deleted]

-----------------------------------------------------------------------------
(* MemStore (internal/store/store.go). *)

\* MemStore.PutLWW with the WAL attached: the map afterwards, the line the
\* call hands to WAL.Append (none when nothing changes) and the record returned.
PutLWW(mp, rec) ==
    IF rec.key \notin DOMAIN mp
    THEN [m |-> MapPut(mp, rec.key, rec), append |-> <<rec>>, ret |-> rec]
    ELSE LET cur == mp[rec.key]
             winner == Newer(cur, rec)
         IN  IF /\ winner.ts = cur.ts
                /\ winner.writer_id = cur.writer_id
                /\ winner.deleted = cur.deleted
                /\ BytesEqual(winner.value, cur.value)
             THEN [m |-> mp, append |-> <<>>, ret |-> cur]
             ELSE [m |-> MapPut(mp, rec.key, winner), append |-> <<winner>>, ret |-> winner]

\* MemStore.ApplyLWW: the LWW merge without the WAL.
ApplyLWW(mp, rec) ==
    IF rec.key \notin DOMAIN mp
    THEN MapPut(mp, rec.key, rec)
    ELSE MapPut(mp, rec.key, Newer(mp[rec.key], rec))

\* MemStore.DumpAll: a copy of the map.
DumpAll(mp) == [k \in DOMAIN mp |-> mp[k]]

\* Two dumps with the same keys and, key by key, the same record.
DumpEq(d1, d2) ==
    /\ DOMAIN d1 = DOMAIN d2
    /\ \A k \in DOMAIN d1 : RecEq(d1[k], d2[k])

-----------------------------------------------------------------------------
(* SpecLWW: the same set of records of one key applied with PutLWW to two  *)
(* empty stores, each in an order of its own.                              *)

LwwKey == "k1"
LwwWriters == {"n1", "n2"}
LwwValues == {"a", "b"}

\* The records a coordinator can create for the key: Put (live, with a value)
\* and Delete (tombstone, value nil), coordinator.Put / coordinator.Delete.
LwwRecs ==
    {Record(LwwKey, v, t, w, FALSE) : v \in LwwValues, t \in 1..MaxTs, w \in LwwWriters}
    \cup {Record(LwwKey, NilValue, t, w, TRUE) : t \in 1..MaxTs, w \in LwwWriters}

StoreIdle ==
    /\ m = EmptyMap
    /\ walFile = <<>>
    /\ walF = FALSE
    /\ snapFile = [exists |-> FALSE, data |-> EmptyMap]
    /\ tmpFile = [exists |-> FALSE, data |-> EmptyMap]
    /\ running = FALSE
    /\ snapPc = "idle"
    /\ snapB = EmptyMap
    /\ calls = 0
    /\ hist = [lastOp |-> "none"]

LwwIdle ==
    /\ lwwSet = {}
    /\ lwwA = EmptyMap
    /\ lwwB = EmptyMap
    /\ todoA = {}
    /\ todoB = {}

ClusterIdle ==
    /\ cfg = <<>>
    /\ ring = <<>>
    /\ up = {}
    /\ store = <<>>
    /\ disk = <<>>
    /\ hints = <<>>
    /\ op = <<>>
    /\ gor = {}
    /\ ch = <<>>
    /\ net = {}
    /\ aeNext = <<>>
    /\ cnt = <<>>

\* The variables of SpecAE while another specification runs.
AuxIdle == ae = <<>> /\ boot = <<>> /\ fan = <<>> /\ rq = <<>>

\* The variables of SpecHints while another specification runs.
HintsIdle ==
    /\ hintM = <<>>
    /\ hintWal = <<>>
    /\ hintWalFile = FALSE
    /\ hintTmp = <<>>
    /\ hintPend = {}
    /\ hintLoop = <<>>
    /\ hintCnt = <<>>
    /\ hintHist = <<>>

InitLWW ==
    /\ lwwSet \in {S \in SUBSET LwwRecs : Cardinality(S) \in 1..MaxLwwRecs}
    /\ lwwA = EmptyMap
    /\ lwwB = EmptyMap
    /\ todoA = lwwSet
    /\ todoB = lwwSet
    /\ StoreIdle
    /\ ClusterIdle
    /\ HintsIdle
    /\ AuxIdle

\* One PutLWW call on store A.
LwwApplyA(r) ==
    /\ r \in todoA
    /\ lwwA' = PutLWW(lwwA, r).m
    /\ todoA' = todoA \ {r}
    /\ UNCHANGED <<lwwSet, lwwB, todoB, storeVars, clusterVars, hintVars, auxVars>>

\* One PutLWW call on store B.
LwwApplyB(r) ==
    /\ r \in todoB
    /\ lwwB' = PutLWW(lwwB, r).m
    /\ todoB' = todoB \ {r}
    /\ UNCHANGED <<lwwSet, lwwA, todoA, storeVars, clusterVars, hintVars, auxVars>>

NextLWW ==
    \/ \E r \in LwwRecs : LwwApplyA(r)
    \/ \E r \in LwwRecs : LwwApplyB(r)

SpecLWW == InitLWW /\ [][NextLWW]_vars

LwwDone == todoA = {} /\ todoB = {}

\* No two different records of the set carry the same (ts, writer_id).
LwwVersionsDistinct ==
    \A r1, r2 \in lwwSet : sameVersion(r1, r2) => r1 = r2

\* C5 (as stated): for any finite set of records of one key, applying them
\* with PutLWW in any order to an empty store leaves the same final record
\* (same ts, writer_id, deleted and value), the maximum of the set under the
\* version order.
LwwConvergenceAnySet ==
    LwwDone =>
        /\ lwwA = lwwB
        /\ \A r \in lwwSet : VersionGeq(lwwA[LwwKey], r)

\* C5 (amended): in any two orders the final records have the same
\* (ts, writer_id), which is the maximum of the set under the version order, and
\* the final record is a record of the set; deleted and value agree as well when
\* no two records of the set share (ts, writer_id).
LwwConvergenceByVersion ==
    LwwDone =>
        /\ DOMAIN lwwA = {LwwKey} /\ DOMAIN lwwB = {LwwKey}
        /\ lwwA[LwwKey] \in lwwSet /\ lwwB[LwwKey] \in lwwSet
        /\ sameVersion(lwwA[LwwKey], lwwB[LwwKey])
        /\ \A r \in lwwSet : VersionGeq(lwwA[LwwKey], r)
        /\ LwwVersionsDistinct => lwwA = lwwB

\* C5 witness: three records of pairwise different versions were applied to
\* both stores and the winner, a tombstone, was not the last one given.
LwwConvergenceWitness ==
    /\ LwwDone
    /\ Cardinality(lwwSet) = 3
    /\ LwwVersionsDistinct
    /\ lwwA[LwwKey].deleted
    /\ \E r \in lwwSet : ~r.deleted /\ VersionLess(r, lwwA[LwwKey])

-----------------------------------------------------------------------------
(* SpecStore: one node's MemStore, its WAL (internal/store wal.go), its      *)
(* snapshot (snapshot.go), kill -9 and the startup sequence of cmd/node.     *)

StoreKeys == {"k1", "k2"}
StoreWriters == {"n1", "n2"}
\* A client PUT body: empty (io.ReadAll gives an empty, non-nil slice) or bytes.
StoreValues == {EmptyValue, "a"}

\* The records that reach PutLWW: created by coordinator.Put (live) or
\* coordinator.Delete (tombstone, value nil), always with a non-empty key.
StoreRecs ==
    {Record(k, v, t, w, FALSE) : k \in StoreKeys, v \in StoreValues, t \in 1..MaxTs, w \in StoreWriters}
    \cup {Record(k, NilValue, t, w, TRUE) : k \in StoreKeys, t \in 1..MaxTs, w \in StoreWriters}

NoFile == [exists |-> FALSE, data |-> EmptyMap]

\* json.Marshal(s.m): the snapshot bytes, a JSON object key -> record.
MarshalMap(mp) == [k \in DOMAIN mp |-> MarshalRecord(mp[k])]

\* store.LoadSnapshot: a missing file is no snapshot (nil map).
LoadSnapshot(file) ==
    IF file.exists THEN [k \in DOMAIN file.data |-> UnmarshalRecord(file.data[k])]
    ELSE EmptyMap

\* WAL.Replay with apply = ApplyLWW: every line in file order, lines with an
\* empty key skipped.
RECURSIVE Replay(_, _, _)
Replay(mp, lines, i) ==
    IF i > Len(lines) THEN mp
    ELSE LET rec == UnmarshalRecord(lines[i])
         IN  IF rec.key = "" THEN Replay(mp, lines, i + 1)
             ELSE Replay(ApplyLWW(mp, rec), lines, i + 1)

\* The store the startup sequence builds from the files on disk
\* (LoadSnapshot, LoadAll, Replay with ApplyLWW).
Recover(snap, lines) == Replay(LoadSnapshot(snap), lines, 1)

\* The record of greater version, the first one on a tie: the history's own
\* comparison, written from the version order and not from Newer.
MaxVersion(a, b) == IF VersionLess(a, b) THEN b ELSE a

\* maxGiven after rec was given to PutLWW or ApplyLWW.
Give(mg, rec) ==
    IF rec.key \in DOMAIN mg THEN MapPut(mg, rec.key, MaxVersion(mg[rec.key], rec))
    ELSE MapPut(mg, rec.key, rec)

RECURSIVE GiveAll(_, _, _)
GiveAll(mg, lines, i) ==
    IF i > Len(lines) THEN mg
    ELSE LET rec == UnmarshalRecord(lines[i])
         IN  IF rec.key = "" THEN GiveAll(mg, lines, i + 1)
             ELSE GiveAll(Give(mg, rec), lines, i + 1)

HistInit ==
    [lastOp |-> "init",         \* the last operation that ran
     lastOlder |-> FALSE,       \* the last PutLWW was given a version older than the stored one
     maxGiven |-> EmptyMap,     \* per key, the greatest version given to PutLWW / ApplyLWW since startup
     loaded |-> {},             \* keys LoadAll took from the snapshot at startup
     appendFailed |-> FALSE,    \* a WAL append returned an error since startup
     snapErr |-> FALSE,         \* a SnapshotAndResetWAL returned an error since startup
     kills |-> 0,
     dumpAtKill |-> EmptyMap,   \* DumpAll at the last kill
     killPc |-> "idle",         \* snapPc at the last kill
     killAppendFailed |-> FALSE,
     killSnapErr |-> FALSE]

\* The node right after its first start on an empty data directory: OpenWAL
\* has created the (empty) WAL file, there is no snapshot.
InitStore ==
    /\ m = EmptyMap
    /\ walFile = <<>>
    /\ walF = TRUE
    /\ snapFile = NoFile
    /\ tmpFile = NoFile
    /\ running = TRUE
    /\ snapPc = "idle"
    /\ snapB = EmptyMap
    /\ calls = 0
    /\ hist = HistInit
    /\ LwwIdle
    /\ ClusterIdle
    /\ HintsIdle
    /\ AuxIdle

\* WAL.Append as PutLWW uses it: the line is written and synced, or the write
\* fails (always when the handle is nil) and PutLWW drops the error.
\* MemStore.PutLWW runs under s.mu, so never inside SnapshotAndResetWAL.
StorePutLWW(rec, appendOk) ==
    /\ running /\ snapPc = "idle"
    /\ calls < MaxCalls
    /\ LET p == PutLWW(m, rec)
           tried == p.append # <<>>
       IN  /\ appendOk \in (IF ~tried THEN {TRUE} ELSE IF walF THEN {TRUE, FALSE} ELSE {FALSE})
           /\ m' = p.m
           /\ walFile' = IF tried /\ appendOk
                         THEN Append(walFile, MarshalRecord(p.append[1]))
                         ELSE walFile
           /\ hist' = [hist EXCEPT !.lastOp = "PutLWW",
                                    !.lastOlder = rec.key \in DOMAIN m /\ VersionLess(rec, m[rec.key]),
                                    !.maxGiven = Give(@, rec),
                                    !.appendFailed = @ \/ (tried /\ ~appendOk)]
    /\ calls' = calls + 1
    /\ UNCHANGED <<walF, snapFile, tmpFile, running, snapPc, snapB, lwwVars, clusterVars, hintVars, auxVars>>

\* SnapshotAndResetWAL, first step: take s.mu and marshal the map.
SnapBegin ==
    /\ running /\ snapPc = "idle"
    /\ calls < MaxCalls
    /\ snapB' = MarshalMap(m)
    /\ snapPc' = "write"
    /\ calls' = calls + 1
    /\ hist' = [hist EXCEPT !.lastOp = "SnapBegin"]
    /\ UNCHANGED <<m, walFile, walF, snapFile, tmpFile, running, lwwVars, clusterVars, hintVars, auxVars>>

\* writeFileAtomic: create <path>.tmp, write, sync, close; on an error the
\* temporary file is removed and the error returned.
SnapWriteTmp(ok) ==
    /\ running /\ snapPc = "write"
    /\ IF ok
       THEN /\ tmpFile' = [exists |-> TRUE, data |-> snapB]
            /\ snapPc' = "remove"
            /\ hist' = [hist EXCEPT !.lastOp = "SnapWriteTmp"]
       ELSE /\ tmpFile' = NoFile
            /\ snapPc' = "idle"
            /\ hist' = [hist EXCEPT !.lastOp = "SnapWriteTmp", !.snapErr = TRUE]
    /\ UNCHANGED <<m, walFile, walF, snapFile, running, snapB, calls, lwwVars, clusterVars, hintVars, auxVars>>

\* writeFileAtomic: _ = os.Remove(path).
SnapRemoveOld ==
    /\ running /\ snapPc = "remove"
    /\ snapFile' = NoFile
    /\ snapPc' = "rename"
    /\ hist' = [hist EXCEPT !.lastOp = "SnapRemoveOld"]
    /\ UNCHANGED <<m, walFile, walF, tmpFile, running, snapB, calls, lwwVars, clusterVars, hintVars, auxVars>>

\* writeFileAtomic: return os.Rename(tmp, path); on an error
\* SnapshotAndResetWAL returns it and the WAL is left alone.
SnapRename(ok) ==
    /\ running /\ snapPc = "rename"
    /\ IF ok
       THEN /\ snapFile' = tmpFile
            /\ tmpFile' = NoFile
            /\ snapPc' = "truncate"
            /\ hist' = [hist EXCEPT !.lastOp = "SnapRename"]
       ELSE /\ UNCHANGED <<snapFile, tmpFile>>
            /\ snapPc' = "idle"
            /\ hist' = [hist EXCEPT !.lastOp = "SnapRename", !.snapErr = TRUE]
    /\ UNCHANGED <<m, walFile, walF, running, snapB, calls, lwwVars, clusterVars, hintVars, auxVars>>

\* WAL.Truncate: close the handle and reopen the file with O_TRUNC; when the
\* open fails the handle stays nil and the error is returned.
SnapTruncate(ok) ==
    /\ running /\ snapPc = "truncate"
    /\ IF ok
       THEN /\ walFile' = <<>>
            /\ walF' = TRUE
            /\ hist' = [hist EXCEPT !.lastOp = "SnapTruncate"]
       ELSE /\ UNCHANGED walFile
            /\ walF' = FALSE
            /\ hist' = [hist EXCEPT !.lastOp = "SnapTruncate", !.snapErr = TRUE]
    /\ snapPc' = "idle"
    /\ UNCHANGED <<m, snapFile, tmpFile, running, snapB, calls, lwwVars, clusterVars, hintVars, auxVars>>

\* The process is killed: memory is gone, the files stay as they are.
Kill ==
    /\ running
    /\ hist.kills < MaxKills
    /\ running' = FALSE
    /\ m' = EmptyMap
    /\ walF' = FALSE
    /\ snapPc' = "idle"
    /\ snapB' = EmptyMap
    /\ hist' = [hist EXCEPT !.lastOp = "Kill",
                             !.kills = @ + 1,
                             !.dumpAtKill = DumpAll(m),
                             !.killPc = snapPc,
                             !.killAppendFailed = hist.appendFailed,
                             !.killSnapErr = hist.snapErr]
    /\ UNCHANGED <<walFile, snapFile, tmpFile, calls, lwwVars, clusterVars, hintVars, auxVars>>

\* main's startup sequence: LoadSnapshot + LoadAll, OpenWAL, Replay with
\* ApplyLWW, AttachWAL.
Startup ==
    /\ ~running
    /\ m' = Recover(snapFile, walFile)
    /\ walF' = TRUE
    /\ running' = TRUE
    /\ hist' = [hist EXCEPT !.lastOp = "Startup",
                             !.maxGiven = GiveAll(EmptyMap, walFile, 1),
                             !.loaded = DOMAIN LoadSnapshot(snapFile),
                             !.appendFailed = FALSE,
                             !.snapErr = FALSE]
    /\ UNCHANGED <<walFile, snapFile, tmpFile, snapPc, snapB, calls, lwwVars, clusterVars, hintVars, auxVars>>

NextStore ==
    \/ \E rec \in StoreRecs, ok \in BOOLEAN : StorePutLWW(rec, ok)
    \/ SnapBegin
    \/ \E ok \in BOOLEAN : SnapWriteTmp(ok)
    \/ SnapRemoveOld
    \/ \E ok \in BOOLEAN : SnapRename(ok)
    \/ \E ok \in BOOLEAN : SnapTruncate(ok)
    \/ Kill
    \/ Startup

SpecStore == InitStore /\ [][NextStore]_vars

-----------------------------------------------------------------------------
(* Claims about the store. *)

StoreHoldsMax ==
    running =>
        /\ DOMAIN m = DOMAIN hist.maxGiven \cup hist.loaded
        /\ \A k \in DOMAIN hist.maxGiven : VersionGeq(m[k], hist.maxGiven[k])

StoreMonotone ==
    (running /\ running') =>
        \A k \in DOMAIN m : k \in DOMAIN m' /\ VersionGeq(m'[k], m[k])

\* C6: after any sequence of PutLWW and ApplyLWW calls the store holds one
\* record for each key it was given (or loaded), of a version >= every record
\* applied for that key; while the process lives the stored version of a key
\* never decreases and a key once present is never removed.
StoreInvariant == []StoreHoldsMax /\ [][StoreMonotone]_vars

\* C6 witness: after a restart both keys are stored and the last PutLWW was
\* given a record older than the stored one.
StoreInvariantWitness ==
    /\ running /\ hist.kills > 0
    /\ hist.lastOp = "PutLWW" /\ hist.lastOlder
    /\ DOMAIN m = StoreKeys

\* C7 (as stated): PutLWW of a tombstone onto a live record of the same ts
\* and writer_id leaves the stored record deleted.
TombstoneSuppressesEqualVersion ==
    [][\A rec \in StoreRecs :
          ( /\ \E ok \in BOOLEAN : StorePutLWW(rec, ok)
            /\ rec.deleted
            /\ rec.key \in DOMAIN m
            /\ ~m[rec.key].deleted
            /\ sameVersion(m[rec.key], rec) )
          => m'[rec.key].deleted]_vars

\* C9 (as stated): a kill outside SnapshotAndResetWAL, after PutLWW calls and
\* completed snapshots, followed by the startup sequence gives back the DumpAll
\* of before the kill.
DurabilityRoundTrip ==
    ( /\ running /\ hist.lastOp = "Startup"
      /\ hist.killPc = "idle" /\ ~hist.killSnapErr )
    => DumpEq(DumpAll(m), hist.dumpAtKill)

\* The round trip in runs where no WAL append failed (what is left of C9 once
\* the dropped append error of PutLWW is set aside).
DurabilityRoundTripAppendsOk ==
    ( /\ running /\ hist.lastOp = "Startup"
      /\ hist.killPc = "idle" /\ ~hist.killSnapErr /\ ~hist.killAppendFailed )
    => DumpEq(DumpAll(m), hist.dumpAtKill)

\* C10 (as stated, for runs whose WAL appends and earlier snapshots all
\* succeeded): after a kill inside SnapshotAndResetWAL the snapshot file plus
\* the WAL reconstruct every record the store held when the snapshot began.
SnapshotCrashAtomic ==
    ( /\ running /\ hist.lastOp = "Startup"
      /\ hist.killPc # "idle" /\ ~hist.killSnapErr /\ ~hist.killAppendFailed )
    => \A k \in DOMAIN hist.dumpAtKill :
          k \in DOMAIN m /\ RecEq(m[k], hist.dumpAtKill[k])

-----------------------------------------------------------------------------
(* The ring (internal/ring).                                                *)

\* hash64 (FNV-1a, 64 bit) of the strings the model hashes, as the rank of
\* the real hash value among them: k1 = 0x08be0f07b56224c1 is the lowest,
\* user = 0x7d6780e4032b48f2 lies between the tokens of n3 and of n2,
\* cat = 0xf5e307190ce4a327 is the highest.
hash64(s) ==
    CASE s = "k2"   -> 0
      [] s = "k1"   -> 1
      [] s = "n1#1" -> 2
      [] s = "n1#0" -> 3
      [] s = "n3#1" -> 4
      [] s = "n3#0" -> 5
      [] s = "user" -> 6
      [] s = "n2#0" -> 7
      [] s = "n2#1" -> 8
      [] s = "n4#0" -> 9
      [] s = "n4#1" -> 10
      [] s = "cat"  -> 11

\* strconv.Itoa of a vnode index.
Itoa(i) == CASE i = 0 -> "0" [] i = 1 -> "1"

VNode(node, i) == [token |-> hash64(node \o "#" \o Itoa(i)), node |-> node, vindex |-> i]

\* sort.Slice by token (the tokens of the model are distinct).
RECURSIVE SortByToken(_)
SortByToken(S) ==
    IF S = {} THEN <<>>
    ELSE LET lo == CHOOSE v \in S : \A u \in S : v.token <= u.token
         IN  <<lo>> \o SortByToken(S \ {lo})

\* ring.New: vnodesPerNode vnodes for every entry of nodes, sorted by token.
\* Entries with the same id give vnodes with the same token and node; the
\* walk of GetReplicas skips the repeats, so the model keeps one of each.
RingNew(nodes, vnodesPerNode) ==
    SortByToken({VNode(nodes[j], i) : j \in 1..Len(nodes), i \in 0..(vnodesPerNode - 1)})

\* The mutant of search: the walk always starts at the first vnode.
searchFromZero(r, target) == 0

\* Ring.search: the first index (from 0) whose token is >= target, else 0.
search(r, target) ==
    LET hits == {i \in 0..(Len(r) - 1) : r[i + 1].token >= target}
    IN  IF hits = {} THEN 0 ELSE CHOOSE i \in hits : \A j \in hits : i <= j

Range(sq) == {sq[i] : i \in 1..Len(sq)}

RECURSIVE Walk(_, _, _, _, _)
Walk(r, start, i, out, n) ==
    IF i >= Len(r) \/ Len(out) >= n THEN out
    ELSE LET vn == r[((start + i) % Len(r)) + 1]
         IN  IF vn.node \in Range(out)
             THEN Walk(r, start, i + 1, out, n)
             ELSE Walk(r, start, i + 1, Append(out, vn.node), n)

\* Ring.GetReplicas: up to n distinct nodes clockwise from the key's token.
GetReplicas(r, key, n) ==
    IF Len(r) = 0 \/ n <= 0 THEN <<>>
    ELSE Walk(r, search(r, hash64(key)), 0, <<>>, n)

-----------------------------------------------------------------------------
(* Cluster configuration (nodes.json, validated by main).                   *)

\* The mutant of ValidConfig: W is not checked.
ValidConfigNoW(c) ==
    /\ Len(c.nodes) # 0
    /\ c.vnodes > 0
    /\ ~(c.n <= 0 \/ c.n > Len(c.nodes))
    /\ ~(c.r <= 0 \/ c.r > c.n)

\* The start-up checks of main on the configuration.
ValidConfig(c) ==
    /\ Len(c.nodes) # 0
    /\ c.vnodes > 0
    /\ ~(c.n <= 0 \/ c.n > Len(c.nodes))
    /\ ~(c.r <= 0 \/ c.r > c.n \/ c.w <= 0 \/ c.w > c.n)

\* Three nodes, two preferred replicas and one fallback for every key.
CfgThree == [nodes |-> <<"n1", "n2", "n3">>, vnodes |-> 2, n |-> 2, r |-> 2, w |-> 2]

\* Three nodes, a write returns after the first ack.
CfgWeakWrite == [nodes |-> <<"n1", "n2", "n3">>, vnodes |-> 2, n |-> 2, r |-> 2, w |-> 1]

\* The typical setup of the README: three nodes, every node a preferred
\* replica of every key.
CfgDemo == [nodes |-> <<"n1", "n2", "n3">>, vnodes |-> 2, n |-> 3, r |-> 2, w |-> 2]

\* Four nodes, two preferred replicas and two fallbacks for every key.
CfgFour == [nodes |-> <<"n1", "n2", "n3", "n4">>, vnodes |-> 2, n |-> 2, r |-> 2, w |-> 2]

\* A node list naming the same id twice: main counts entries, not ids.
CfgRepeatedId == [nodes |-> <<"n1", "n1">>, vnodes |-> 2, n |-> 2, r |-> 2, w |-> 2]

Configs == {c \in {CfgThree, CfgRepeatedId} : ValidConfig(c)}

Nodes == Range(cfg.nodes)

\* coordinator.Config.NumNodes as main sets it.
NumNodes == Len(cfg.nodes)

-----------------------------------------------------------------------------
(* Spec: the cluster. One client request at a time is coordinated; replica  *)
(* puts, read-repair, hint hand-off and anti-entropy run beside it.         *)

ClusterKey == "cat"
PutValues == {"a"}

MapDel(mp, k) == [x \in DOMAIN mp \ {k} |-> mp[x]]

\* The mutant of Wire: the receiver stamps the record with another ts.
WireRestamped(rec) ==
    [UnmarshalRecord(MarshalRecord(rec)) EXCEPT !.ts = (@ % MaxTs) + 1]

\* A record as the peer decodes it from the JSON body of a request.
Wire(rec) == UnmarshalRecord(MarshalRecord(rec))

\* hints.Manager.Add: keep the newer of the stored hint and rec per (target, key).
\* The mutant of HintsAdd: the record handed in replaces the hint held.
HintsAddOverwrite(hm, targetID, rec) == MapPut(hm, <<targetID, rec.key>>, rec)

HintsAdd(hm, targetID, rec) ==
    IF targetID = "" \/ rec.key = "" THEN hm
    ELSE LET k == <<targetID, rec.key>>
         IN  IF k \in DOMAIN hm
             THEN LET cur == hm[k]
                      w == Newer(cur, rec)
                  IN  IF w.ts # cur.ts \/ w.writer_id # cur.writer_id
                      THEN MapPut(hm, k, w)
                      ELSE hm
             ELSE MapPut(hm, k, rec)

\* A mutant of DeleteIfSame: the hint of the pair is removed whatever its version.
DeleteIfSameAnyVersion(hm, targetID, key, rec) ==
    IF <<targetID, key>> \in DOMAIN hm THEN MapDel(hm, <<targetID, key>>) ELSE hm

\* The mutant of DeleteIfSame: a delivered hint is never removed.
DeleteIfSameKeeps(hm, targetID, key, rec) == hm

\* hints.Manager.DeleteIfSame: drop the hint unless a newer version replaced it.
DeleteIfSame(hm, targetID, key, rec) ==
    IF targetID = "" \/ key = "" THEN hm
    ELSE LET k == <<targetID, key>>
         IN  IF k \in DOMAIN hm /\ hm[k].ts = rec.ts /\ hm[k].writer_id = rec.writer_id
             THEN MapDel(hm, k)
             ELSE hm

\* A mutant of QuorumReached: any ack counts as a quorum.
QuorumReachedAlways(acks, w) == TRUE

\* The mutant of QuorumReached: one ack short counts as a quorum.
QuorumReachedOneShort(acks, w) == acks >= w - 1

\* PutRecord: acks >= c.Cfg.W.
QuorumReached(acks, w) == acks >= w

\* The request being coordinated; kind "none" before the first request.
OpIdle ==
    [kind |-> "none", phase |-> "idle", coord |-> "", key |-> "", rec |-> <<>>,
     preferred |-> <<>>, fallbacks |-> <<>>, i |-> 0,
     acks |-> 0, ackers |-> {}, failedPreferred |-> <<>>,
     need |-> 0, failedIDs |-> <<>>, fb |-> 0, ctx2Expired |-> FALSE,
     success |-> 0, resps |-> <<>>, winner |-> <<>>, found |-> FALSE,
     result |-> "none", status |-> 0, body |-> NilValue,
     upAll |-> {}, held |-> {}, crashed |-> {}, sent |-> <<>>]

\* What is left of the bounds of the run.
Budget(ops, crashes, appendFails, aeTicks) ==
    [ops |-> ops, crashes |-> crashes, appendFails |-> appendFails, aeTicks |-> aeTicks]

\* The nodes clients send their requests to: a preferred replica of the key
\* and a fallback.
ClientNodes == {"n1", "n2"}

\* The nodes of configuration c on empty data directories, all started but
\* those of down.
ClusterStart(c, down, budget) ==
    /\ cfg = c
    /\ ring = RingNew(cfg.nodes, cfg.vnodes)
    /\ up = Range(cfg.nodes) \ down
    /\ store = [n \in Range(cfg.nodes) |-> EmptyMap]
    /\ disk = [n \in Range(cfg.nodes) |-> EmptyMap]
    /\ hints = [n \in Range(cfg.nodes) |-> EmptyMap]
    /\ op = OpIdle
    /\ gor = {}
    /\ ch = <<>>
    /\ net = {}
    /\ aeNext = [n \in Range(cfg.nodes) |-> 0]
    /\ cnt = budget
    /\ LwwIdle
    /\ StoreIdle
    /\ HintsIdle

ClusterInit(c, down, budget) == ClusterStart(c, down, budget) /\ AuxIdle

Init == \E c \in Configs : ClusterInit(c, {}, Budget(MaxOps, MaxCrashes, MaxAppendFails, MaxAeTicks))

\* The mutant of PutAt: the hint of a replica put is not recorded.
PutAtNoHint(n, rec, hintFor, appendOk, c0) ==
    LET res == PutLWW(store[n], rec)
    IN  /\ appendOk \/ (res.append # <<>> /\ c0.appendFails > 0)
        /\ store' = [store EXCEPT ![n] = res.m]
        /\ disk' = IF appendOk /\ res.append # <<>>
                   THEN [disk EXCEPT ![n] = ApplyLWW(@, res.append[1])]
                   ELSE disk
        /\ hints' = hints
        /\ cnt' = IF appendOk THEN c0 ELSE [c0 EXCEPT !.appendFails = @ - 1]

\* MemStore.PutLWW on node n, followed by Hints.Add when hintFor is set: the
\* body of the /internal/put handler and of the self-dispatch of replicaPut.
\* appendOk is the outcome of WAL.Append, which PutLWW does not look at; c0
\* is the counter record the step leaves apart from the append.
PutAt(n, rec, hintFor, appendOk, c0) ==
    LET res == PutLWW(store[n], rec)
    IN  /\ appendOk \/ (res.append # <<>> /\ c0.appendFails > 0)
        /\ store' = [store EXCEPT ![n] = res.m]
        /\ disk' = IF appendOk /\ res.append # <<>>
                   THEN [disk EXCEPT ![n] = ApplyLWW(@, res.append[1])]
                   ELSE disk
        /\ hints' = IF hintFor # ""
                    THEN [hints EXCEPT ![n] = HintsAdd(@, hintFor, rec)]
                    ELSE hints
        /\ cnt' = IF appendOk THEN c0 ELSE [c0 EXCEPT !.appendFails = @ - 1]

\* History of a write: {n} when the store of n holds, right after the put of
\* the step, a version of the key that is >= rec; else {}.
HeldAfter(n, rec) ==
    {x \in {n} : rec.key \in DOMAIN store'[x] /\ VersionGeq(store'[x][rec.key], rec)}

\* A replica put that runs on after its caller stopped waiting for it.
PutMsg(kind, from, to, rec) == [kind |-> kind, from |-> from, to |-> to, rec |-> rec]

OpFree == op.phase \in {"idle", "done"}

\* The head of PutRecord: ring order, preferred replicas, fallbacks and the
\* phase-1 goroutines, one per preferred replica.
BeginPutRecord(c, rec) ==
    LET order == GetReplicas(ring, rec.key, NumNodes)
        prefN == IF cfg.n > Len(order) THEN Len(order) ELSE cfg.n
    IN  /\ OpFree
        /\ c \in up
        /\ cnt.ops > 0
        /\ Len(order) # 0
        /\ op' = [OpIdle EXCEPT !.kind = "put", !.phase = "p1", !.coord = c,
                                !.key = rec.key, !.rec = rec,
                                !.preferred = SubSeq(order, 1, prefN),
                                !.fallbacks = SubSeq(order, prefN + 1, Len(order)),
                                !.upAll = up]
        /\ gor' = Range(SubSeq(order, 1, prefN))
        /\ ch' = <<>>
        /\ cnt' = [cnt EXCEPT !.ops = @ - 1]
        /\ UNCHANGED <<cfg, ring, up, store, disk, hints, net, aeNext, lwwVars, storeVars, hintVars, auxVars>>

\* PUT /kv/{key}: coordinator.Put.
ClientPut(c, v, ts) == BeginPutRecord(c, Record(ClusterKey, v, ts, c, FALSE))

\* DELETE /kv/{key}: coordinator.Delete writes a tombstone.
ClientDelete(c, ts) == BeginPutRecord(c, Record(ClusterKey, NilValue, ts, c, TRUE))

\* PutRecord returns: the handler answers 204 or 503; phase-1 calls still
\* running are cancelled and may or may not reach their replica.
\* The mutant of PutReturn: the outstanding phase-1 calls are left waiting.
PutReturnNoCancel(o, result) ==
    /\ op' = [o EXCEPT !.phase = "done", !.result = result,
                       !.status = IF result = "ok" THEN 204 ELSE 503]
    /\ net' = net
    /\ gor' = gor
    /\ ch' = <<>>

PutReturn(o, result) ==
    /\ op' = [o EXCEPT !.phase = "done", !.result = result,
                       !.status = IF result = "ok" THEN 204 ELSE 503]
    /\ net' = net \cup {PutMsg("put", o.coord, n, o.rec) : n \in gor}
    /\ gor' = {}
    /\ ch' = <<>>

\* A phase-1 goroutine: replicaPut(ctx1, n, rec, "").
ReplicaPutRun(n) ==
    /\ op.kind = "put" /\ op.phase = "p1"
    /\ n \in gor
    /\ gor' = gor \ {n}
    /\ \/ /\ n = op.coord
          /\ \E appendOk \in BOOLEAN : PutAt(n, op.rec, "", appendOk, cnt)
          /\ ch' = Append(ch, [node |-> n, err |-> FALSE])
          /\ op' = [op EXCEPT !.held = @ \cup HeldAfter(n, op.rec)]
       \/ /\ n # op.coord /\ n \in up
          /\ \E appendOk \in BOOLEAN : PutAt(n, Wire(op.rec), "", appendOk, cnt)
          /\ ch' = Append(ch, [node |-> n, err |-> FALSE])
          /\ op' = [op EXCEPT !.held = @ \cup HeldAfter(n, op.rec)]
       \/ /\ n # op.coord /\ n \notin up
          /\ ch' = Append(ch, [node |-> n, err |-> TRUE])
          /\ UNCHANGED <<store, disk, hints, cnt, op>>
    /\ UNCHANGED <<cfg, ring, up, net, aeNext, lwwVars, storeVars, hintVars, auxVars>>

\* One turn of the phase-1 receive loop and, after the last turn, the entry
\* into phase 2.
PutRecv ==
    /\ op.kind = "put" /\ op.phase = "p1"
    /\ ch # <<>>
    /\ LET r == Head(ch)
           o1 == IF ~r.err
                 THEN [op EXCEPT !.i = @ + 1, !.acks = @ + 1, !.ackers = @ \cup {r.node}]
                 ELSE [op EXCEPT !.i = @ + 1, !.failedPreferred = Append(@, r.node)]
       IN  IF ~r.err /\ QuorumReached(o1.acks, cfg.w)
           THEN PutReturn(o1, "ok")
           ELSE IF o1.i < Len(op.preferred)
           THEN /\ op' = o1
                /\ ch' = Tail(ch)
                /\ UNCHANGED <<gor, net>>
           ELSE IF cfg.w - o1.acks <= 0
           THEN PutReturn(o1, "ok")
           ELSE IF Len(op.fallbacks) = 0
           THEN PutReturn(o1, "quorum_unreached")
           ELSE /\ op' = [o1 EXCEPT !.phase = "p2", !.need = cfg.w - o1.acks,
                                    !.failedIDs = o1.failedPreferred]
                /\ ch' = <<>>
                /\ UNCHANGED <<gor, net>>
    /\ UNCHANGED <<cfg, ring, up, store, disk, hints, aeNext, cnt, lwwVars, storeVars, hintVars, auxVars>>

\* One turn of the phase-2 loop: replicaPut(ctx2, fb, rec, hintFor), one
\* fallback after the other under the one deadline of ctx2. A call to a node
\* that is down fails at once (connection refused) or when the deadline
\* passes (no answer), timedOut; after that every remote call fails at once.
PutFallback ==
    /\ op.kind = "put" /\ op.phase = "p2"
    /\ LET fbn == op.fallbacks[op.fb + 1]
           hintFor == IF Len(op.failedIDs) > 0 THEN Head(op.failedIDs) ELSE ""
           rest == IF Len(op.failedIDs) > 0 THEN Tail(op.failedIDs) ELSE <<>>
           o1 == [op EXCEPT !.fb = @ + 1, !.failedIDs = rest,
                            !.sent = Append(@, [fb |-> fbn, hintFor |-> hintFor])]
           Finish(o2, err) ==
               IF ~err /\ QuorumReached(o2.acks, cfg.w)
               THEN PutReturn(o2, "ok")
               ELSE IF o2.fb < Len(op.fallbacks) /\ o2.need > 0
               THEN op' = o2 /\ UNCHANGED <<gor, net, ch>>
               ELSE PutReturn(o2, "quorum_unreached")
           Acked == [o1 EXCEPT !.acks = @ + 1, !.need = @ - 1,
                               !.ackers = @ \cup {fbn}, !.held = @ \cup HeldAfter(fbn, op.rec)]
       IN  \/ /\ fbn = op.coord
              /\ \E appendOk \in BOOLEAN : PutAt(fbn, op.rec, hintFor, appendOk, cnt)
              /\ Finish(Acked, FALSE)
           \/ /\ fbn # op.coord /\ ~op.ctx2Expired /\ fbn \in up
              /\ \E appendOk \in BOOLEAN : PutAt(fbn, Wire(op.rec), hintFor, appendOk, cnt)
              /\ Finish(Acked, FALSE)
           \/ /\ fbn # op.coord /\ ~op.ctx2Expired /\ fbn \notin up
              /\ \E timedOut \in BOOLEAN :
                    Finish([o1 EXCEPT !.ctx2Expired = timedOut], TRUE)
              /\ UNCHANGED <<store, disk, hints, cnt>>
           \/ /\ fbn # op.coord /\ op.ctx2Expired
              /\ Finish(o1, TRUE)
              /\ UNCHANGED <<store, disk, hints, cnt>>
    /\ UNCHANGED <<cfg, ring, up, aeNext, lwwVars, storeVars, hintVars, auxVars>>

\* Get: the LWW winner among the collected responses with found = true,
\* folded with Newer in arrival order; none when no response has the key.
RECURSIVE FoldNewer(_, _)
FoldNewer(w, rs) ==
    IF rs = <<>> THEN w ELSE FoldNewer(Newer(w, Head(rs).rec[1]), Tail(rs))

\* The mutant of ResolveWinner: the first found response wins.
ResolveWinnerFirst(resps) ==
    LET f == SelectSeq(resps, LAMBDA r : r.found)
    IN  IF Len(f) = 0 THEN <<>> ELSE <<f[1].rec[1]>>

ResolveWinner(resps) ==
    LET f == SelectSeq(resps, LAMBDA r : r.found)
    IN  IF Len(f) = 0 THEN <<>> ELSE <<FoldNewer(f[1].rec[1], Tail(f))>>

\* A mutant of needsRepair: every response is repaired.
needsRepairAlways(r, winner) == TRUE

\* The mutant of needsRepair: only a response that lacks the key is repaired.
needsRepairNotFound(r, winner) == ~r.found

\* A mutant of needsRepair: a response that differs from the winner in any
\* field is repaired.
needsRepairOnTie(r, winner) == ~r.found \/ ~RecEq(r.rec[1], winner)

\* Get: a response is repaired when it lacks the key or holds an older version.
needsRepair(r, winner) ==
    IF ~r.found THEN TRUE
    ELSE LET best == Newer(r.rec[1], winner)
         IN  sameVersion(best, winner) /\ ~sameVersion(r.rec[1], winner)

\* The mutant of GetFound: any winner counts as present.
GetFoundAnyWinner(winner) == Len(winner) > 0

\* Get: the bool it returns; a tombstone is "logically not found".
GetFound(winner) == Len(winner) > 0 /\ ~winner[1].deleted

\* Get returns; the /kv/ handler answers 503 on an error, 404 when the bool
\* is false, else 200 with the value.
GetReturn(o, result) ==
    /\ op' = [o EXCEPT !.phase = "done", !.result = result,
                       !.status = IF result # "ok" THEN 503
                                  ELSE IF ~o.found THEN 404 ELSE 200,
                       !.body = IF result = "ok" /\ o.found
                                THEN o.winner[1].value ELSE NilValue]
    /\ gor' = {}
    /\ ch' = <<>>

\* GET /kv/{key}: the head of coordinator.Get.
\* The mutant of ClientGet: the read goes to every node of the ring walk.
ClientGetAllNodes(c) ==
    LET replicas == GetReplicas(ring, ClusterKey, NumNodes)
        o1 == [OpIdle EXCEPT !.kind = "get", !.coord = c, !.key = ClusterKey,
                             !.preferred = replicas, !.upAll = up]
    IN  /\ OpFree
        /\ c \in up
        /\ cnt.ops > 0
        /\ cnt' = [cnt EXCEPT !.ops = @ - 1]
        /\ IF Len(replicas) < cfg.r
           THEN GetReturn(o1, "quorum_impossible")
           ELSE /\ op' = [o1 EXCEPT !.phase = "g1"]
                /\ gor' = Range(replicas)
                /\ ch' = <<>>
        /\ UNCHANGED <<cfg, ring, up, store, disk, hints, net, aeNext, lwwVars, storeVars, hintVars, auxVars>>

ClientGet(c) ==
    LET replicas == GetReplicas(ring, ClusterKey, cfg.n)
        o1 == [OpIdle EXCEPT !.kind = "get", !.coord = c, !.key = ClusterKey,
                             !.preferred = replicas, !.upAll = up]
    IN  /\ OpFree
        /\ c \in up
        /\ cnt.ops > 0
        /\ cnt' = [cnt EXCEPT !.ops = @ - 1]
        /\ IF Len(replicas) < cfg.r
           THEN GetReturn(o1, "quorum_impossible")
           ELSE /\ op' = [o1 EXCEPT !.phase = "g1"]
                /\ gor' = Range(replicas)
                /\ ch' = <<>>
        /\ UNCHANGED <<cfg, ring, up, store, disk, hints, net, aeNext, lwwVars, storeVars, hintVars, auxVars>>

\* What Store.Get of a node answers, in the shape of a result of Get.
GetResult(n, mp, key, remote) ==
    IF key \in DOMAIN mp
    THEN [node |-> n, rec |-> <<IF remote THEN Wire(mp[key]) ELSE mp[key]>>,
          found |-> TRUE, err |-> FALSE]
    ELSE [node |-> n, rec |-> <<>>, found |-> FALSE, err |-> FALSE]

\* A goroutine of Get: replicaGet(ctx, n, key).
ReplicaGetRun(n) ==
    /\ op.kind = "get" /\ op.phase = "g1"
    /\ n \in gor
    /\ gor' = gor \ {n}
    /\ ch' = Append(ch, IF n = op.coord THEN GetResult(n, store[n], op.key, FALSE)
                        ELSE IF n \in up THEN GetResult(n, store[n], op.key, TRUE)
                        ELSE [node |-> n, rec |-> <<>>, found |-> FALSE, err |-> TRUE])
    /\ UNCHANGED <<cfg, ring, up, store, disk, hints, op, net, aeNext, cnt, lwwVars, storeVars, hintVars, auxVars>>

\* One turn of the receive loop of Get and, once R successes are in, the
\* rest of Get: winner, read-repair goroutines, result.
GetRecv ==
    /\ op.kind = "get" /\ op.phase = "g1"
    /\ ch # <<>>
    /\ LET r == Head(ch)
           o1 == IF ~r.err
                 THEN [op EXCEPT !.i = @ + 1, !.success = @ + 1, !.resps = Append(@, r)]
                 ELSE [op EXCEPT !.i = @ + 1]
           winner == ResolveWinner(o1.resps)
           o2 == [o1 EXCEPT !.winner = winner, !.found = GetFound(winner)]
       IN  IF o1.i < Len(op.preferred) /\ o1.success < cfg.r
           THEN /\ op' = o1
                /\ ch' = Tail(ch)
                /\ UNCHANGED <<gor, net>>
           ELSE IF o1.success < cfg.r
           THEN /\ GetReturn(o1, "quorum_unreached")
                /\ UNCHANGED net
           ELSE /\ GetReturn(o2, "ok")
                /\ net' = IF Len(winner) = 0 THEN net
                          ELSE net \cup {PutMsg("repair", op.coord, o1.resps[j].node, winner[1]) :
                                            j \in {x \in 1..Len(o1.resps) :
                                                      needsRepair(o1.resps[x], winner[1])}}
    /\ UNCHANGED <<cfg, ring, up, store, disk, hints, aeNext, cnt, lwwVars, storeVars, hintVars, auxVars>>

\* A replica put outside a request reaches its node: a cancelled phase-1
\* call or a read-repair (replicaPut with no hint).
NetDeliver(msg) ==
    /\ msg \in net
    /\ msg.kind \in {"put", "repair"}
    /\ msg.to \in up
    /\ net' = net \ {msg}
    /\ \E appendOk \in BOOLEAN :
          PutAt(msg.to, IF msg.from = msg.to THEN msg.rec ELSE Wire(msg.rec), "", appendOk, cnt)
    /\ UNCHANGED <<cfg, ring, up, op, gor, ch, aeNext, lwwVars, storeVars, hintVars, auxVars>>

\* A remote call outside a request fails: a phase-1 call is cancelled when
\* PutRecord returns; a read-repair or a hand-off post runs under a deadline
\* of its own and fails when its target is down or its sender died.
NetDrop(msg) ==
    /\ msg \in net
    /\ msg.from # msg.to
    /\ msg.kind = "put" \/ msg.to \notin up \/ msg.from \notin up
    /\ net' = net \ {msg}
    /\ UNCHANGED <<cfg, ring, up, store, disk, hints, op, gor, ch, aeNext, cnt, lwwVars, storeVars, hintVars, auxVars>>

\* The hand-off loop of node n posts the hint it holds for (target, key) to
\* the target's /internal/put; the answer is on its way back.
HandoffPost(n, target, key) ==
    /\ n \in up
    /\ <<target, key>> \in DOMAIN hints[n]
    /\ target \in Nodes
    /\ target \in up
    /\ ~\E msg \in net : msg.kind = "handoff" /\ msg.from = n
    /\ net' = net \cup {PutMsg("handoff", n, target, hints[n][<<target, key>>])}
    /\ \E appendOk \in BOOLEAN :
          PutAt(target, Wire(hints[n][<<target, key>>]), "", appendOk, cnt)
    /\ UNCHANGED <<cfg, ring, up, op, gor, ch, aeNext, lwwVars, storeVars, hintVars, auxVars>>

\* The post returned without error: hm.DeleteIfSame(tid, rec.Key, rec).
HandoffDone(msg) ==
    /\ msg \in net
    /\ msg.kind = "handoff"
    /\ net' = net \ {msg}
    /\ hints' = [hints EXCEPT ![msg.from] = DeleteIfSame(@, msg.to, msg.rec.key, msg.rec)]
    /\ UNCHANGED <<cfg, ring, up, store, disk, op, gor, ch, aeNext, cnt, lwwVars, storeVars, hintVars, auxVars>>

\* runAntiEntropyOnce: the default of maxPull.
AeMaxPull == 200

\* store.KeysMeta: key -> (ts, writer_id, deleted).
KeysMeta(mp) ==
    [k \in DOMAIN mp |-> [ts |-> mp[k].ts, writer_id |-> mp[k].writer_id, deleted |-> mp[k].deleted]]

\* A mutant of NeedPull: every key of the peer is pulled.
NeedPullAlways(local, key, pm) == TRUE

\* A mutant of NeedPull: only a key absent locally is pulled.
NeedPullAbsentOnly(local, key, pm) == key \notin DOMAIN local

\* runAntiEntropyOnce: pull the key when it is absent locally or the peer's
\* version is different and wins Newer.
NeedPull(local, key, pm) ==
    IF key \notin DOMAIN local THEN TRUE
    ELSE LET lr == [ts |-> local[key].ts, writer_id |-> local[key].writer_id]
             pr == [ts |-> pm.ts, writer_id |-> pm.writer_id]
             w == Newer(lr, pr)
         IN  /\ ~(lr.ts = pr.ts /\ lr.writer_id = pr.writer_id)
             /\ w.ts = pr.ts /\ w.writer_id = pr.writer_id

\* The mutant of Peers: the loop of a node visits its last peer only.
PeersLastOnly(n) ==
    LET ps == SelectSeq(cfg.nodes, LAMBDA x : x # n)
    IN  IF ps = <<>> THEN ps ELSE <<ps[Len(ps)]>>

\* The peers of node n in the order of the configuration.
Peers(n) == SelectSeq(cfg.nodes, LAMBDA x : x # n)

\* PutLWW of the pulled records, one key after the other.
RECURSIVE PullAll(_, _, _)
PullAll(mp, peerMap, keys) ==
    IF keys = {} THEN mp
    ELSE LET k == CHOOSE x \in keys : TRUE
         IN  PullAll(PutLWW(mp, Wire(peerMap[k])).m, peerMap, keys \ {k})

\* One tick of the anti-entropy loop of node n: the next peer in round-robin
\* order, its key metadata, and a pull of at most maxPull keys. next is kept
\* modulo the number of peers.
AeTick(n) ==
    /\ n \in up
    /\ Len(Peers(n)) > 0
    /\ cnt.aeTicks > 0
    /\ LET peers == Peers(n)
           peer == peers[(aeNext[n] % Len(peers)) + 1]
           c0 == [cnt EXCEPT !.aeTicks = @ - 1]
       IN  /\ aeNext' = [aeNext EXCEPT ![n] = (@ + 1) % Len(peers)]
           /\ IF peer \notin up
              THEN /\ cnt' = c0
                   /\ UNCHANGED <<store, disk>>
              ELSE LET kres == KeysMeta(store[peer])
                       need == {k \in DOMAIN kres : NeedPull(KeysMeta(store[n]), k, kres[k])}
                       quota == IF Cardinality(need) < AeMaxPull
                                THEN Cardinality(need) ELSE AeMaxPull
                   IN  \E pull \in SUBSET need, appendOk \in BOOLEAN :
                          /\ Cardinality(pull) = quota
                          /\ appendOk \/ (pull # {} /\ c0.appendFails > 0)
                          /\ store' = [store EXCEPT ![n] = PullAll(@, store[peer], pull)]
                          /\ disk' = IF appendOk
                                     THEN [disk EXCEPT ![n] = PullAll(@, store[peer], pull)]
                                     ELSE disk
                          /\ cnt' = IF appendOk THEN c0
                                    ELSE [c0 EXCEPT !.appendFails = @ - 1]
    /\ UNCHANGED <<cfg, ring, up, hints, op, gor, ch, net, lwwVars, storeVars, hintVars, auxVars>>

\* The process of node n dies. Its store comes back as snapshot + WAL
\* recover it; the request it coordinates is gone, the remote calls it had
\* started may still arrive; its other goroutines are gone.
Crash(n) ==
    /\ n \in up
    /\ cnt.crashes > 0
    /\ cnt' = [cnt EXCEPT !.crashes = @ - 1]
    /\ up' = up \ {n}
    /\ store' = [store EXCEPT ![n] = disk[n]]
    /\ aeNext' = [aeNext EXCEPT ![n] = 0]
    /\ LET kept == {msg \in net : ~(msg.from = n /\ (msg.to = n \/ msg.kind = "handoff"))}
       IN  IF ~OpFree /\ op.coord = n
           THEN /\ op' = [op EXCEPT !.phase = "done", !.result = "aborted",
                                    !.upAll = @ \ {n}, !.crashed = @ \cup {n}]
                /\ net' = kept \cup (IF op.kind = "put"
                                     THEN {PutMsg("put", n, x, op.rec) : x \in gor \ {n}}
                                     ELSE {})
                /\ gor' = {}
                /\ ch' = <<>>
           ELSE /\ op' = IF op.kind = "none" THEN op
                         ELSE [op EXCEPT !.upAll = IF OpFree THEN @ ELSE @ \ {n},
                                         !.crashed = @ \cup {n}]
                /\ net' = kept
                /\ UNCHANGED <<gor, ch>>
    /\ UNCHANGED <<cfg, ring, disk, hints, lwwVars, storeVars, hintVars, auxVars>>

\* Node n is started again: main loads the snapshot and replays the WAL.
Restart(n) ==
    /\ n \in Nodes \ up
    /\ up' = up \cup {n}
    /\ store' = [store EXCEPT ![n] = disk[n]]
    /\ UNCHANGED <<cfg, ring, disk, hints, op, gor, ch, net, aeNext, cnt, lwwVars, storeVars, hintVars, auxVars>>

Next ==
    \/ \E c \in ClientNodes, v \in PutValues, ts \in 1..MaxTs : ClientPut(c, v, ts)
    \/ \E c \in ClientNodes, ts \in 1..MaxTs : ClientDelete(c, ts)
    \/ \E c \in ClientNodes : ClientGet(c)
    \/ \E n \in Nodes : ReplicaPutRun(n)
    \/ PutRecv
    \/ PutFallback
    \/ \E n \in Nodes : ReplicaGetRun(n)
    \/ GetRecv
    \/ \E msg \in net : NetDeliver(msg)
    \/ \E msg \in net : NetDrop(msg)
    \/ \E n \in Nodes, target \in Nodes : HandoffPost(n, target, ClusterKey)
    \/ \E msg \in net : HandoffDone(msg)
    \/ \E n \in Nodes : AeTick(n)
    \/ \E n \in Nodes : Crash(n)
    \/ \E n \in Nodes : Restart(n)

Spec == Init /\ [][Next]_vars

\* SpecRead: writes that return after one ack, their cancelled calls
\* delivered or lost, and reads; one preferred replica may be started late.
InitRead ==
    \E c \in {CfgWeakWrite, CfgRepeatedId}, down \in {{}, {"n3"}} :
        ValidConfig(c) /\ ClusterInit(c, down, Budget(MaxReadOps, 0, 0, 0))

NextRead ==
    \/ \E c \in ClientNodes, v \in PutValues, ts \in 1..MaxTs : ClientPut(c, v, ts)
    \/ \E c \in ClientNodes, ts \in 1..MaxTs : ClientDelete(c, ts)
    \/ \E c \in ClientNodes : ClientGet(c)
    \/ \E n \in Nodes : ReplicaPutRun(n)
    \/ PutRecv
    \/ \E n \in Nodes : ReplicaGetRun(n)
    \/ GetRecv
    \/ \E msg \in net : NetDeliver(msg)
    \/ \E msg \in net : NetDrop(msg)
    \/ \E n \in Nodes : Restart(n)

SpecRead == InitRead /\ [][NextRead]_vars

\* SpecSloppy: writes on four nodes, two of which may fail.
InitSloppy ==
    ValidConfig(CfgFour) /\ ClusterInit(CfgFour, {}, Budget(MaxOps, MaxSloppyCrashes, 0, 0))

NextSloppy ==
    \/ \E c \in ClientNodes, v \in PutValues, ts \in 1..MaxTs : ClientPut(c, v, ts)
    \/ \E c \in ClientNodes, ts \in 1..MaxTs : ClientDelete(c, ts)
    \/ \E n \in Nodes : ReplicaPutRun(n)
    \/ PutRecv
    \/ PutFallback
    \/ \E msg \in net : NetDeliver(msg)
    \/ \E msg \in net : NetDrop(msg)
    \/ \E n \in Nodes : Crash(n)
    \/ \E n \in Nodes : Restart(n)

SpecSloppy == InitSloppy /\ [][NextSloppy]_vars

-----------------------------------------------------------------------------
(* Claims about the coordinator.                                            *)

PutDone == op.kind = "put" /\ op.phase = "done" /\ op.result # "aborted"
GetDone == op.kind = "get" /\ op.phase = "done" /\ op.result # "aborted"

Holds(n, rec) == rec.key \in DOMAIN store[n] /\ VersionGeq(store[n][rec.key], rec)

\* C1: PutRecord returns success only if at least W distinct nodes of the
\* ring order of the key acknowledged the record: each of them applied it
\* with PutLWW and held a version >= the record when it acknowledged, and
\* holds one still unless its process has died since.
WriteQuorum ==
    (PutDone /\ op.result = "ok") =>
        /\ Cardinality(op.ackers) >= cfg.w
        /\ op.acks = Cardinality(op.ackers)
        /\ op.ackers \subseteq Range(GetReplicas(ring, op.key, NumNodes))
        /\ \A n \in op.ackers :
              /\ n \in op.held
              /\ n \notin op.crashed => Holds(n, op.rec)

\* A write that reached W through a fallback after a preferred replica failed.
WriteQuorumWitness ==
    /\ PutDone /\ op.result = "ok"
    /\ op.fb > 0
    /\ Len(op.failedPreferred) > 0
    /\ \E n \in op.ackers : n \in Range(op.fallbacks)

\* C2: in a cluster with more than N nodes, a write with a preferred replica
\* down returns success when at least W nodes of the ring order were up
\* from its start to its end.
SloppyQuorumAvailable ==
    ( /\ PutDone
      /\ Len(cfg.nodes) > cfg.n
      /\ \E p \in Range(op.preferred) : p \notin op.upAll
      /\ Cardinality(op.upAll \cap (Range(op.preferred) \cup Range(op.fallbacks))) >= cfg.w )
    => op.result = "ok"

\* The same for the writes in which no fallback call ran into the deadline.
SloppyQuorumNoTimeout == ~op.ctx2Expired => SloppyQuorumAvailable

FoundResps(resps) == {j \in 1..Len(resps) : resps[j].found}

\* C3: Get returns without error only with R successful answers of distinct
\* preferred replicas; it fails as quorum-impossible exactly when the ring
\* yields fewer than R replicas and as quorum-not-reached only when all
\* replicas were heard and fewer than R answered; the winner is a found
\* response whose version is >= that of every found response.
ReadQuorum ==
    GetDone =>
        LET replicas == GetReplicas(ring, op.key, cfg.n)
            f == FoundResps(op.resps)
        IN  /\ (op.result = "quorum_impossible") <=> (Len(replicas) < cfg.r)
            /\ op.result = "quorum_unreached" =>
                  op.success < cfg.r /\ op.i = Len(replicas)
            /\ op.result = "ok" =>
                  /\ Len(op.resps) = cfg.r
                  /\ Len(replicas) <= cfg.n
                  /\ \A j \in 1..Len(op.resps) :
                        ~op.resps[j].err /\ op.resps[j].node \in Range(replicas)
                  /\ \A j, k \in 1..Len(op.resps) :
                        op.resps[j].node = op.resps[k].node => j = k
                  /\ (f = {}) <=> (Len(op.winner) = 0)
                  /\ f # {} =>
                        /\ \E j \in f : RecEq(op.winner[1], op.resps[j].rec[1])
                        /\ \A j \in f : VersionGeq(op.winner[1], op.resps[j].rec[1])

\* A read whose two answers hold different versions, the older one first.
ReadQuorumWitness ==
    /\ GetDone /\ op.result = "ok"
    /\ Len(op.resps) = 2
    /\ op.resps[1].found /\ op.resps[2].found
    /\ VersionLess(op.resps[1].rec[1], op.resps[2].rec[1])

GetSurfaceState ==
    (GetDone /\ op.result = "ok") =>
        LET live == Len(op.winner) > 0 /\ ~op.winner[1].deleted
        IN  /\ live => op.status = 200 /\ op.body = op.winner[1].value
            /\ ~live => op.status = 404 /\ op.body = NilValue
            /\ Len(op.winner) = 0 <=> FoundResps(op.resps) = {}

GetKeepsStores ==
    (op.phase = "g1" /\ op'.phase = "done" /\ op'.result = "ok") =>
        store' = store /\ disk' = disk

\* C4: Get answers 200 with the value only when the winner is a live record;
\* with no found response or a tombstone as winner it answers 404, and
\* returning changes no store (the tombstone stays on the replicas).
GetSurface == []GetSurfaceState /\ [][GetKeepsStores]_vars

\* A read answered 404 for a tombstone that the replicas still hold.
GetSurfaceWitness ==
    /\ GetDone /\ op.result = "ok"
    /\ Len(op.winner) > 0 /\ op.winner[1].deleted
    /\ op.status = 404
    /\ \A j \in FoundResps(op.resps) :
          LET n == op.resps[j].node
          IN  op.key \in DOMAIN store[n] /\ store[n][op.key].deleted

TombstoneStays(n) ==
    (ClusterKey \in DOMAIN store[n] /\ store[n][ClusterKey].deleted) =>
        ~ /\ ClusterKey \in DOMAIN store'[n]
          /\ ~store'[n][ClusterKey].deleted
          /\ ~VersionLess(store[n][ClusterKey], store'[n][ClusterKey])

\* C8: once the store of a node holds a tombstone of version v, no step
\* (replica put, hint delivery, read-repair, anti-entropy pull, node failure)
\* leaves that node with a live record of a version that is not above v;
\* stated for the three-node cluster.
TombstoneNoResurrection == [][cfg = CfgThree => \A n \in Nodes : TombstoneStays(n)]_vars

\* The same over the steps in which no process dies.
TombstoneKeptByPuts == [][up' = up => \A n \in Nodes : TombstoneStays(n)]_vars

\* C11: a step in which the WAL append of a replica write fails leaves the
\* store of the replica as it was and hands the coordinator an error: no ack
\* is counted and the result put on the channel is a failure; stated for the
\* three-node cluster.
AppendFailureNotAcked ==
    [][(cfg = CfgThree /\ cnt'.appendFails < cnt.appendFails) =>
          /\ store' = store
          /\ op'.acks = op.acks
          /\ Len(ch') > Len(ch) => ch'[Len(ch')].err]_vars

\* C12: every phase-2 write carries as hint_for the id of a preferred replica
\* that failed in phase 1, no two of them the same id, and every fallback
\* that acknowledged such a write holds a hint for a failed preferred replica.
HintOnEveryFallbackWrite ==
    op.kind = "put" =>
        /\ \A j \in 1..Len(op.sent) : op.sent[j].hintFor \in Range(op.failedPreferred)
        /\ \A j, k \in 1..Len(op.sent) :
              op.sent[j].hintFor = op.sent[k].hintFor => j = k
        /\ \A j \in 1..Len(op.sent) :
              op.sent[j].fb \in op.ackers =>
                  \E t \in Range(op.failedPreferred) :
                      <<t, op.key>> \in DOMAIN hints[op.sent[j].fb]

-----------------------------------------------------------------------------
(* SpecHandoff: writes with one node stopped, which is started again, and   *)
(* the hand-off loops; no client read and no anti-entropy.                  *)

InitHandoff ==
    \E c \in {CfgThree, CfgDemo}, down \in {{"n2"}, {"n3"}} :
        ValidConfig(c) /\ ClusterInit(c, down, Budget(MaxHandoffOps, 0, 0, 0))

NextHandoff ==
    \/ \E c \in ClientNodes, v \in PutValues, ts \in 1..MaxTs : ClientPut(c, v, ts)
    \/ \E c \in ClientNodes, ts \in 1..MaxTs : ClientDelete(c, ts)
    \/ \E n \in Nodes : ReplicaPutRun(n)
    \/ PutRecv
    \/ PutFallback
    \/ \E msg \in net : NetDeliver(msg)
    \/ \E msg \in net : NetDrop(msg)
    \/ \E n \in Nodes, target \in Nodes : HandoffPost(n, target, ClusterKey)
    \/ \E msg \in net : HandoffDone(msg)
    \/ \E n \in Nodes : Restart(n)

\* The ticker of each hand-off loop keeps firing, a post that was answered
\* returns, and a stopped node is started again.
FairHandoff ==
    /\ \A n \in Range(NodeIds) :
          WF_vars(\E target \in Nodes : HandoffPost(n, target, ClusterKey))
    /\ WF_vars(\E msg \in net : HandoffDone(msg))
    /\ WF_vars(\E n \in Nodes : Restart(n))

SpecHandoff == InitHandoff /\ [][NextHandoff]_vars /\ FairHandoff

HintsFor(target) ==
    {n \in Nodes : <<target, ClusterKey>> \in DOMAIN hints[n]}

\* C13: three nodes with N=3, R=2, W=2 and n2 stopped: once a PUT of cat
\* through n1 has succeeded, n2 is running again and the hand-off loops have
\* nothing left to deliver to n2 (no hint for n2, no call in flight), the
\* store of n2 holds cat as written: live, writer n1, the value of the PUT.
HandoffEndToEnd ==
    ( /\ cfg = CfgDemo
      /\ PutDone /\ op.result = "ok"
      /\ op.coord = "n1" /\ ~op.rec.deleted
      /\ "n2" \notin op.upAll
      /\ "n2" \in up
      /\ net = {}
      /\ HintsFor("n2") = {} )
    => /\ ClusterKey \in DOMAIN store["n2"]
       /\ store["n2"][ClusterKey].value = op.rec.value
       /\ ~store["n2"][ClusterKey].deleted
       /\ store["n2"][ClusterKey].writer_id = "n1"

\* The records the coordinators of the cluster can write.
ClusterRecs ==
    {Record(ClusterKey, v, t, w, FALSE) : v \in PutValues, t \in 1..MaxTs, w \in ClientNodes}
    \cup {Record(ClusterKey, NilValue, t, w, TRUE) : t \in 1..MaxTs, w \in ClientNodes}

\* A hint leaves the manager of a node only when the store of its target
\* holds a version of the key that is >= the hint.
HintRemovedWhenHeld ==
    \A n \in Nodes, target \in Nodes :
        ( /\ <<target, ClusterKey>> \in DOMAIN hints[n]
          /\ <<target, ClusterKey>> \notin DOMAIN hints'[n] )
        => /\ ClusterKey \in DOMAIN store'[target]
           /\ VersionGeq(store'[target][ClusterKey], hints[n][<<target, ClusterKey>>])

\* Every hand-off loop ends with nothing left to deliver.
HintsDrain == <>[](\A n \in Nodes : DOMAIN hints[n] = {})

\* C14: with the target of a hint started again and kept running, the hint
\* is removed in the end (the hint count drains to zero), and it is removed
\* only when the store of the target holds a version >= the hinted record.
HintDelivery == HintsDrain /\ [][HintRemovedWhenHeld]_vars

\* A hint is held while its target is stopped and delivered after the restart.
HintDeliveryWitness ==
    /\ \E msg \in net : msg.kind = "handoff" /\ Holds(msg.to, msg.rec)
    /\ cnt.ops = 0

-----------------------------------------------------------------------------
(* SpecHints: one hints.Manager with its WAL (internal/hints/hints.go), the
   /internal/put handlers and the coordinator calling Add concurrently, and
   the hand-off loop of the node (cmd/node/main.go) calling RecordsFor,
   DeleteIfSame and MaybeCompact in turn. *)

\* Add calls of one run.
MaxHintAdds == 2
\* Deliveries the hand-off loop attempts in one run.
MaxHintPosts == 2
\* Compactions of one run.
MaxHintCompactions == 1
\* Failing file operations of one run.
MaxHintIoFails == 1
\* Kills (each followed by a restart) of one run.
MaxHintKills == 1

\* The targets hints are kept for, and the records handed to Add: two
\* versions of the key, and a tombstone with the version of the older one.
HintTargets == {"n2", "n3"}
HintRecs ==
    {Record(ClusterKey, "a", t, "n1", FALSE) : t \in 1..MaxTs}
        \cup {Record(ClusterKey, NilValue, 1, "n1", TRUE)}
HintPairs == {<<t, ClusterKey>> : t \in HintTargets}

\* walEntry{Op: "add", Target, Record} and walEntry{Op: "del", Target, Key,
\* Ts, Writer} as json.Marshal writes them; the fields left out by omitempty
\* decode to their zero values.
AddEntry(targetID, rec) ==
    [op |-> "add", target |-> targetID, key |-> "", ts |-> 0, writer |-> "",
     record |-> <<MarshalRecord(rec)>>]
DelEntry(targetID, key, rec) ==
    [op |-> "del", target |-> targetID, key |-> key, ts |-> rec.ts,
     writer |-> rec.writer_id, record |-> <<>>]

\* Manager.addNoWAL and Manager.delNoWAL.
addNoWAL(hm, targetID, rec) == HintsAdd(hm, targetID, rec)
delNoWAL(hm, targetID, key, ts, writerID) ==
    IF targetID = "" \/ key = "" THEN hm
    ELSE LET k == <<targetID, key>>
         IN  IF k \in DOMAIN hm /\ hm[k].ts = ts /\ hm[k].writer_id = writerID
             THEN MapDel(hm, k)
             ELSE hm

\* Manager.replay: the map after the lines of the WAL from line i on are
\* applied, in order, to hm.
RECURSIVE replay(_, _, _)
replay(hm, wal, i) ==
    IF i > Len(wal) THEN hm
    ELSE LET e == wal[i]
             nxt == IF e.op = "add"
                    THEN IF e.record # <<>>
                         THEN addNoWAL(hm, e.target, UnmarshalRecord(e.record[1]))
                         ELSE hm
                    ELSE IF e.op = "del"
                    THEN delNoWAL(hm, e.target, e.key, e.ts, e.writer)
                    ELSE hm
         IN  replay(nxt, wal, i + 1)

\* The manager NewPersistent builds from the file at walPath.
NewPersistent(wal) == replay(EmptyMap, wal, 1)

\* The lines compactLocked writes to the temporary file: one add entry for
\* every hint of the map.
RECURSIVE CompactLines(_, _)
CompactLines(hm, ks) ==
    IF ks = {} THEN <<>>
    ELSE LET k == CHOOSE x \in ks : TRUE
         IN  <<AddEntry(k[1], hm[k])>> \o CompactLines(hm, ks \ {k})

LoopIdle == [pc |-> "idle", target |-> "", rec |-> <<>>]

HintHistInit ==
    [added |-> [k \in HintPairs |-> {}],
     last |-> "",
     interleaved |-> FALSE,
     superseded |-> FALSE,
     memBefore |-> EmptyMap,
     pcBefore |-> "idle",
     pendBefore |-> FALSE]

InitHints ==
    /\ hintM = EmptyMap
    /\ hintWal = <<>>
    /\ hintWalFile = TRUE
    /\ hintTmp = <<>>
    /\ hintPend = {}
    /\ hintLoop = LoopIdle
    /\ hintCnt = [adds |-> MaxHintAdds, posts |-> MaxHintPosts,
                  compactions |-> MaxHintCompactions, fails |-> MaxHintIoFails,
                  kills |-> MaxHintKills]
    /\ hintHist = HintHistInit
    /\ LwwIdle
    /\ StoreIdle
    /\ ClusterIdle
    /\ AuxIdle

\* compactLocked holds Manager.mu from its first line to its return.
MuFree == hintLoop.pc \in {"idle", "post", "del"}

\* A call is between its change of the map and its appendWAL.
AppendOutstanding == hintPend # {} \/ hintLoop.pc = "del"

\* The history after a step named step: a change of the map made while the
\* appendWAL of an earlier change is outstanding interleaves two calls.
HistStep(step, mapChanged) ==
    [hintHist EXCEPT !.last = step,
                     !.interleaved = @ \/ (AppendOutstanding /\ mapChanged)]

\* Manager.Add up to its unlock: addLocked under the mutex.  A call that
\* changed the map goes on to appendWAL.
AddCall(targetID, rec) ==
    /\ hintCnt.adds > 0
    /\ MuFree
    /\ LET k == <<targetID, rec.key>>
           hm2 == HintsAdd(hintM, targetID, rec)
           changed == hm2 # hintM
       IN  /\ hintM' = hm2
           /\ hintPend' = IF changed
                          THEN hintPend \cup {[id |-> hintCnt.adds, e |-> AddEntry(targetID, rec)]}
                          ELSE hintPend
           /\ hintHist' = [HistStep("add", changed) EXCEPT
                              !.added[k] = @ \cup {rec}]
    /\ hintCnt' = [hintCnt EXCEPT !.adds = @ - 1]
    /\ UNCHANGED <<hintWal, hintWalFile, hintTmp, hintLoop, lwwVars, storeVars, clusterVars, auxVars>>

\* Manager.appendWAL: nothing when walFile is nil; otherwise the line is
\* written and synced, or the write fails.  Its callers drop the error.
appendWAL(wal, walOpen, e, ok) ==
    IF walOpen /\ ok THEN Append(wal, e) ELSE wal

\* The rest of Manager.Add: the appendWAL of the add entry.
AddAppend(p, ok) ==
    /\ p \in hintPend
    /\ ok \/ (hintWalFile /\ hintCnt.fails > 0)
    /\ hintWal' = appendWAL(hintWal, hintWalFile, p.e, ok)
    /\ hintPend' = hintPend \ {p}
    /\ hintCnt' = IF ok THEN hintCnt ELSE [hintCnt EXCEPT !.fails = @ - 1]
    /\ hintHist' = HistStep("append", FALSE)
    /\ UNCHANGED <<hintM, hintWalFile, hintTmp, hintLoop, lwwVars, storeVars, clusterVars, auxVars>>

\* The hand-off loop: Targets and RecordsFor give it a copy of a hint, which
\* it posts to the target.
HoSnapshot(k) ==
    /\ hintLoop.pc = "idle"
    /\ hintCnt.posts > 0
    /\ k \in DOMAIN hintM
    /\ hintLoop' = [pc |-> "post", target |-> k[1], rec |-> <<hintM[k]>>]
    /\ hintCnt' = [hintCnt EXCEPT !.posts = @ - 1]
    /\ hintHist' = HistStep("snapshot", FALSE)
    /\ UNCHANGED <<hintM, hintWal, hintWalFile, hintTmp, hintPend, lwwVars, storeVars, clusterVars, auxVars>>

\* PostJSON returns: on an error the hint stays; on success DeleteIfSame runs
\* up to its unlock.
HoPosted(ok) ==
    /\ hintLoop.pc = "post"
    /\ LET t == hintLoop.target
           r == hintLoop.rec[1]
           k == <<t, r.key>>
           hm2 == IF ok THEN DeleteIfSame(hintM, t, r.key, r) ELSE hintM
           deleted == hm2 # hintM
       IN  /\ hintM' = hm2
           /\ hintLoop' = IF deleted THEN [hintLoop EXCEPT !.pc = "del"] ELSE LoopIdle
           /\ hintHist' = [HistStep(IF ok THEN "delivered" ELSE "postFailed", deleted) EXCEPT
                              !.added[k] = IF deleted THEN {} ELSE @,
                              !.superseded = ok /\ k \in DOMAIN hintM
                                                /\ VersionLess(r, hintM[k])]
    /\ UNCHANGED <<hintWal, hintWalFile, hintTmp, hintPend, hintCnt, lwwVars, storeVars, clusterVars, auxVars>>

\* The rest of DeleteIfSame: the appendWAL of the del entry.
HoDelAppend(ok) ==
    /\ hintLoop.pc = "del"
    /\ ok \/ (hintWalFile /\ hintCnt.fails > 0)
    /\ hintWal' = appendWAL(hintWal, hintWalFile,
                            DelEntry(hintLoop.target, hintLoop.rec[1].key, hintLoop.rec[1]), ok)
    /\ hintLoop' = LoopIdle
    /\ hintCnt' = IF ok THEN hintCnt ELSE [hintCnt EXCEPT !.fails = @ - 1]
    /\ hintHist' = HistStep("append", FALSE)
    /\ UNCHANGED <<hintM, hintWalFile, hintTmp, hintPend, lwwVars, storeVars, clusterVars, auxVars>>

\* MaybeCompact at the end of a tick of the hand-off loop, when the WAL is
\* open and its size has passed the threshold (one line of a large record is
\* enough), up to the point where compactLocked has closed the WAL.
CompactBegin ==
    /\ hintLoop.pc = "idle"
    /\ hintCnt.compactions > 0
    /\ hintWalFile
    /\ hintWal # <<>>
    /\ hintWalFile' = FALSE
    /\ hintLoop' = [hintLoop EXCEPT !.pc = "compactWrite"]
    /\ hintCnt' = [hintCnt EXCEPT !.compactions = @ - 1]
    /\ hintHist' = HistStep("compactBegin", FALSE)
    /\ UNCHANGED <<hintM, hintWal, hintTmp, hintPend, lwwVars, storeVars, clusterVars, auxVars>>

\* compactLocked writes, flushes, syncs and closes the temporary file; on an
\* error it removes the file, reopens the WAL and returns.
CompactWrite(ok) ==
    /\ hintLoop.pc = "compactWrite"
    /\ ok \/ hintCnt.fails > 0
    /\ IF ok
       THEN /\ hintTmp' = CompactLines(hintM, DOMAIN hintM)
            /\ hintLoop' = [hintLoop EXCEPT !.pc = "compactRemove"]
            /\ UNCHANGED <<hintWalFile, hintCnt>>
       ELSE /\ hintTmp' = <<>>
            /\ hintWalFile' = TRUE
            /\ hintLoop' = LoopIdle
            /\ hintCnt' = [hintCnt EXCEPT !.fails = @ - 1]
    /\ hintHist' = HistStep("compactWrite", FALSE)
    /\ UNCHANGED <<hintM, hintWal, hintPend, lwwVars, storeVars, clusterVars, auxVars>>

\* os.Remove(walPath).
CompactRemove ==
    /\ hintLoop.pc = "compactRemove"
    /\ hintWal' = <<>>
    /\ hintLoop' = [hintLoop EXCEPT !.pc = "compactRename"]
    /\ hintHist' = HistStep("compactRemove", FALSE)
    /\ UNCHANGED <<hintM, hintWalFile, hintTmp, hintPend, hintCnt, lwwVars, storeVars, clusterVars, auxVars>>

\* os.Rename(tmp, walPath); on an error the temporary file is removed and the
\* WAL reopened, which creates it empty.
CompactRename(ok) ==
    /\ hintLoop.pc = "compactRename"
    /\ ok \/ hintCnt.fails > 0
    /\ IF ok
       THEN /\ hintWal' = hintTmp
            /\ hintLoop' = [hintLoop EXCEPT !.pc = "compactReopen"]
            /\ UNCHANGED <<hintWalFile, hintCnt>>
       ELSE /\ hintWal' = hintWal
            /\ hintWalFile' = TRUE
            /\ hintLoop' = LoopIdle
            /\ hintCnt' = [hintCnt EXCEPT !.fails = @ - 1]
    /\ hintTmp' = <<>>
    /\ hintHist' = HistStep("compactRename", FALSE)
    /\ UNCHANGED <<hintM, hintPend, lwwVars, storeVars, clusterVars, auxVars>>

\* The WAL is reopened for append; on an error compactLocked returns with
\* walFile nil.
CompactReopen(ok) ==
    /\ hintLoop.pc = "compactReopen"
    /\ ok \/ hintCnt.fails > 0
    /\ hintWalFile' = ok
    /\ hintLoop' = LoopIdle
    /\ hintCnt' = IF ok THEN hintCnt ELSE [hintCnt EXCEPT !.fails = @ - 1]
    /\ hintHist' = HistStep("compactReopen", FALSE)
    /\ UNCHANGED <<hintM, hintWal, hintTmp, hintPend, lwwVars, storeVars, clusterVars, auxVars>>

\* The node is killed and started again: NewPersistent replays the WAL and
\* opens it for append.
HintsRestart ==
    /\ hintCnt.kills > 0
    /\ LET hm2 == NewPersistent(hintWal)
       IN  /\ hintM' = hm2
           /\ hintHist' = [HistStep("restart", FALSE) EXCEPT
                              !.added = [k \in HintPairs |->
                                            IF k \in DOMAIN hm2 THEN {hm2[k]} ELSE {}],
                              !.memBefore = hintM,
                              !.pcBefore = hintLoop.pc,
                              !.pendBefore = AppendOutstanding]
    /\ hintWalFile' = TRUE
    /\ hintPend' = {}
    /\ hintLoop' = LoopIdle
    /\ hintCnt' = [hintCnt EXCEPT !.kills = @ - 1]
    /\ UNCHANGED <<hintWal, hintTmp, lwwVars, storeVars, clusterVars, auxVars>>

NextHints ==
    \/ \E t \in HintTargets, rec \in HintRecs : AddCall(t, rec)
    \/ \E p \in hintPend, ok \in BOOLEAN : AddAppend(p, ok)
    \/ \E k \in HintPairs : HoSnapshot(k)
    \/ \E ok \in BOOLEAN : HoPosted(ok)
    \/ \E ok \in BOOLEAN : HoDelAppend(ok)
    \/ CompactBegin
    \/ \E ok \in BOOLEAN : CompactWrite(ok)
    \/ CompactRemove
    \/ \E ok \in BOOLEAN : CompactRename(ok)
    \/ \E ok \in BOOLEAN : CompactReopen(ok)
    \/ HintsRestart

SpecHints == InitHints /\ [][NextHints]_vars

\* C15: whatever Add and DeleteIfSame calls were made, the manager holds at
\* most one hint per (target, key); a held hint is one of the records added
\* for the pair since the pair was last empty and no such record has a higher
\* version (so a record added twice is held once); a pair nothing was added
\* for since it was last empty holds no hint.
HintManagerInvariant ==
    /\ DOMAIN hintM \subseteq HintPairs
    /\ \A k \in HintPairs :
          IF k \in DOMAIN hintM
          THEN /\ hintM[k] \in hintHist.added[k]
               /\ \A r \in hintHist.added[k] : VersionGeq(hintM[k], r)
          ELSE hintHist.added[k] = {}

\* Two records of different versions were added for a pair, the older one
\* last, and the pair holds the newer one.
HintManagerWitness ==
    \E k \in DOMAIN hintM :
        /\ hintHist.last = "add"
        /\ hintPend = {}
        /\ hintM[k].ts = MaxTs
        /\ \E r \in hintHist.added[k] : r.ts < MaxTs

\* C16: when the delivery of the hint r1 the hand-off loop copied for
\* (target, key) succeeds, DeleteIfSame(target, key, r1) leaves every hint of
\* another version where it is, in particular a newer r2 added for the pair
\* during the delivery; and no step of the running manager removes a hint but
\* the DeleteIfSame of a delivered record with the hint's (ts, writer_id).
SupersededHintSurvives ==
    [][hintHist'.last # "restart" =>
          /\ \A x \in DOMAIN hintM \ DOMAIN hintM' :
                /\ hintLoop.pc = "post"
                /\ hintHist'.last = "delivered"
                /\ x = <<hintLoop.target, hintLoop.rec[1].key>>
                /\ hintM[x].ts = hintLoop.rec[1].ts
                /\ hintM[x].writer_id = hintLoop.rec[1].writer_id
          /\ (hintLoop.pc = "post" /\ hintHist'.last = "delivered") =>
                LET k == <<hintLoop.target, hintLoop.rec[1].key>>
                IN  /\ \A x \in DOMAIN hintM \cap DOMAIN hintM' : hintM'[x] = hintM[x]
                    /\ (k \in DOMAIN hintM /\ ~sameVersion(hintM[k], hintLoop.rec[1])) =>
                          (k \in DOMAIN hintM' /\ hintM'[k] = hintM[k])]_vars

\* The delivery of the older record has just succeeded while the pair held a
\* newer one, which is still there.
SupersededHintWitness ==
    /\ hintHist.last = "delivered"
    /\ hintHist.superseded
    /\ \E k \in DOMAIN hintM : hintM[k].ts = MaxTs

\* Two hint maps hold the same targets, keys and record versions.
SameHints(a, b) ==
    /\ DOMAIN a = DOMAIN b
    /\ \A k \in DOMAIN a : sameVersion(a[k], b[k])

\* No file operation has failed, no compaction has started and the node has
\* not been killed.
HintsUndisturbed ==
    /\ hintCnt.fails = MaxHintIoFails
    /\ hintCnt.compactions = MaxHintCompactions
    /\ hintCnt.kills = MaxHintKills

\* C17: once every Add and DeleteIfSame call has returned, however the calls
\* were interleaved, replaying the hint WAL from an empty manager gives the
\* hint map held in memory: the same targets, keys and record versions.
HintReplayEqualsMemory ==
    (hintPend = {} /\ hintLoop.pc \in {"idle", "post"} /\ HintsUndisturbed)
        => SameHints(NewPersistent(hintWal), hintM)

\* The hint WAL holds the line e.
InHintWal(e) == \E i \in 1..Len(hintWal) : hintWal[i] = e

\* C18: a hint RecordsFor hands to the hand-off loop has its add entry in the
\* hint WAL already, and a hint DeleteIfSame has taken out of the map (Targets,
\* RecordsFor and Count no longer show it) has its del entry in the WAL.
HintDurableBeforeVisible ==
    HintsUndisturbed =>
        /\ hintLoop.pc = "post" => InHintWal(AddEntry(hintLoop.target, hintLoop.rec[1]))
        /\ hintLoop.pc = "del" =>
              InHintWal(DelEntry(hintLoop.target, hintLoop.rec[1].key, hintLoop.rec[1]))

\* C19: with no failing file operation and no change of the map made while
\* the append of an earlier change was outstanding, a compaction started at
\* any point leaves a WAL that replays to the hints held in memory: both once
\* the calls of a manager that kept running have returned, and when the node
\* is killed, with no append outstanding, and started again.
HintCompactionSafe ==
    (/\ hintCnt.fails = MaxHintIoFails
     /\ hintCnt.compactions < MaxHintCompactions
     /\ ~hintHist.interleaved)
        => /\ (hintCnt.kills = MaxHintKills /\ hintPend = {} /\ hintLoop.pc = "idle")
                 => SameHints(NewPersistent(hintWal), hintM)
           /\ (hintHist.last = "restart" /\ ~hintHist.pendBefore)
                 => SameHints(hintM, hintHist.memBefore)

-----------------------------------------------------------------------------
(* SpecRepair: the reads of SpecRead with the scheduling of their read-repair
   goroutines: a goroutine Get started runs, and its replicaPut to a node
   that is up is answered within its own deadline. *)

RepairMsgs == {msg \in net : msg.kind = "repair"}

FairRepair == WF_vars(\E msg \in RepairMsgs : NetDeliver(msg))

SpecRepair == InitRead /\ [][NextRead]_vars /\ FairRepair

\* Get returns a winner in this step: every collected response that was
\* not-found or of a version strictly older than the winner has a replicaPut
\* of the winner on its way to the responder.
RepairSent ==
    (op.kind = "get" /\ op.phase = "g1" /\ op'.phase = "done" /\ op'.result = "ok"
        /\ Len(op'.winner) > 0)
    => \A j \in 1..Len(op'.resps) :
          LET r == op'.resps[j]
          IN  (~r.found \/ VersionLess(r.rec[1], op'.winner[1]))
                 => PutMsg("repair", op'.coord, r.node, op'.winner[1]) \in net'

\* A read-repair call ends in this step only by being applied: the store of
\* its target then holds a version >= the winner it carries.
RepairApplied ==
    \A msg \in RepairMsgs :
        msg \notin net' => Holds(msg.to, msg.rec)'

\* C20: a Get that resolves a winner w sends w to every collected responder
\* that reported not-found or a version strictly older than w; with no
\* further client request every such call ends, and it ends with the store
\* of the responder holding a version >= w, tombstone or not.
ReadRepairConvergence ==
    /\ [][RepairSent /\ RepairApplied]_vars
    /\ <>[](RepairMsgs = {})

\* A Get resolved a tombstone while a responder reported not-found, and the
\* repair has been applied: the responder holds the tombstone.
ReadRepairWitness ==
    /\ op.kind = "get" /\ op.phase = "done" /\ op.result = "ok"
    /\ Len(op.winner) > 0 /\ op.winner[1].deleted
    /\ RepairMsgs = {}
    /\ \E j \in 1..Len(op.resps) :
          /\ ~op.resps[j].found
          /\ Holds(op.resps[j].node, op.winner[1])

\* Get returns a winner in this step.
GetResolves ==
    /\ op.kind = "get" /\ op.phase = "g1"
    /\ op'.phase = "done" /\ op'.result = "ok" /\ Len(op'.winner) > 0

\* C21: the read-repair writes Get starts carry the winner and go only to
\* collected responders that reported not-found or a version strictly older
\* than the winner; a responder whose record has the (ts, writer_id) of the
\* winner is sent none.
NoRepairBetweenEqualVersions ==
    [][GetResolves =>
          LET w == op'.winner[1]
              sent == {msg \in net' \ net : msg.kind = "repair"}
          IN  /\ \A msg \in sent :
                    /\ msg.rec = w
                    /\ \E j \in 1..Len(op'.resps) :
                          /\ op'.resps[j].node = msg.to
                          /\ \/ ~op'.resps[j].found
                             \/ VersionLess(op'.resps[j].rec[1], w)
              /\ \A j \in 1..Len(op'.resps) :
                    (op'.resps[j].found /\ sameVersion(op'.resps[j].rec[1], w))
                       => \A msg \in sent : msg.to # op'.resps[j].node]_vars

\* A Get has returned whose responders hold the same (ts, writer_id) with
\* different contents: neither was sent a repair.
NoRepairWitness ==
    /\ op.kind = "get" /\ op.phase = "done" /\ op.result = "ok"
    /\ Len(op.winner) > 0
    /\ RepairMsgs = {}
    /\ \E j \in 1..Len(op.resps) :
          /\ op.resps[j].found
          /\ sameVersion(op.resps[j].rec[1], op.winner[1])
          /\ op.resps[j].rec[1].deleted # op.winner[1].deleted

-----------------------------------------------------------------------------
(* SpecAE: the anti-entropy loops of the nodes (cmd/node/main.go), each tick
   of runAntiEntropyOnce taken key by key, with replica writes arriving at
   the stores of n1 and n2 meanwhile and nodes stopped and started.  n3 is
   down at first: what its store holds later it has pulled. *)

\* Replica writes of one run.
MaxAeWrites == 2
\* Stops of a node in one run.
MaxAeStops == 1

\* The keys, the records written (two versions of one key, one of the
\* other), and the values of the -ae-max flag: 0 stands for the default.
AeKeys == {"k1", "k2"}
AeRecs ==
    {Record("k1", "a", t, "n1", FALSE) : t \in 1..MaxTs} \cup {Record("k2", "a", 1, "n1", FALSE)}
AeMaxFlags == {0, 1}

\* runAntiEntropyOnce: maxPull, defaulted.
AeEffectiveMax(maxPull) == IF maxPull <= 0 THEN AeMaxPull ELSE maxPull

\* The mutant of AeCapReached: the loop goes one pull beyond the cap.
AeCapReachedLate(pulled, maxPull) == pulled > maxPull

\* runAntiEntropyOnce: the break of the loop.
AeCapReached(pulled, maxPull) == pulled >= maxPull

\* The loop of a node before its first tick; between two ticks the fields
\* are those of the tick before.
AeTickIdle(maxPull) ==
    [pc |-> "idle", max |-> maxPull, peer |-> "", kres |-> EmptyMap,
     local |-> EmptyMap, todo |-> {}, pulled |-> 0]

InitAE ==
    \E maxPull \in AeMaxFlags :
        /\ ClusterStart(CfgThree, {"n3"}, Budget(MaxAeWrites, MaxAeStops, 0, 0))
        /\ ae = [n \in Range(CfgThree.nodes) |-> AeTickIdle(maxPull)]
        /\ boot = <<>>
        /\ fan = <<>>
        /\ rq = <<>>

\* A replica write reaches the store of node n: PutLWW.
AeWrite(n, rec) ==
    /\ n \in up
    /\ cnt.ops > 0
    /\ cnt' = [cnt EXCEPT !.ops = @ - 1]
    /\ store' = [store EXCEPT ![n] = PutLWW(@, rec).m]
    /\ disk' = [disk EXCEPT ![n] = PutLWW(@, rec).m]
    /\ UNCHANGED <<cfg, ring, up, hints, op, gor, ch, net, aeNext, ae, lwwVars, storeVars, hintVars, boot, fan, rq>>

\* A tick of the loop of node n: the peer of the round, and the head of
\* runAntiEntropyOnce: the metadata of the peer (the tick is over when the
\* peer does not answer) and the local metadata.
AeBegin(n) ==
    /\ n \in up
    /\ ae[n].pc = "idle"
    /\ Len(Peers(n)) > 0
    /\ LET peers == Peers(n)
           peer == peers[(aeNext[n] % Len(peers)) + 1]
           kres == IF peer \in up THEN KeysMeta(store[peer]) ELSE EmptyMap
       IN  /\ aeNext' = [aeNext EXCEPT ![n] = (@ + 1) % Len(peers)]
           /\ ae' = [ae EXCEPT ![n] =
                        IF DOMAIN kres = {} THEN AeTickIdle(@.max)
                        ELSE [pc |-> "run", max |-> @.max, peer |-> peer, kres |-> kres,
                              local |-> KeysMeta(store[n]), todo |-> DOMAIN kres,
                              pulled |-> 0]]
    /\ UNCHANGED <<cfg, ring, up, store, disk, hints, op, gor, ch, net, cnt, lwwVars, storeVars, hintVars, boot, fan, rq>>

\* The mutant of AeStep: a key is pulled only by a node that is one of its
\* N preferred replicas.
AeStepOwnedOnly(n, key) ==
    /\ n \in up
    /\ ae[n].pc = "run"
    /\ key \in ae[n].todo
    /\ LET t == ae[n]
           apply == /\ NeedPull(t.local, key, t.kres[key])
                    /\ t.peer \in up
                    /\ key \in DOMAIN store[t.peer]
                    /\ n \in Range(GetReplicas(ring, key, cfg.n))
           pulled == IF apply THEN t.pulled + 1 ELSE t.pulled
           stop == apply /\ AeCapReached(pulled, AeEffectiveMax(t.max))
           mp == IF apply THEN PutLWW(store[n], Wire(store[t.peer][key])).m ELSE store[n]
       IN  /\ store' = [store EXCEPT ![n] = mp]
           /\ disk' = [disk EXCEPT ![n] = mp]
           /\ ae' = [ae EXCEPT ![n] =
                        [t EXCEPT !.todo = @ \ {key}, !.pulled = pulled,
                                  !.pc = IF stop \/ t.todo = {key} THEN "idle" ELSE "run"]]
    /\ UNCHANGED <<cfg, ring, up, hints, op, gor, ch, net, aeNext, cnt, lwwVars, storeVars, hintVars, boot, fan, rq>>

\* One turn of the loop of runAntiEntropyOnce over the keys of the peer, in
\* the order the map yields them: the comparison, the fetch from the peer,
\* PutLWW, and the break at the cap.
AeStep(n, key) ==
    /\ n \in up
    /\ ae[n].pc = "run"
    /\ key \in ae[n].todo
    /\ LET t == ae[n]
           apply == /\ NeedPull(t.local, key, t.kres[key])
                    /\ t.peer \in up
                    /\ key \in DOMAIN store[t.peer]
           pulled == IF apply THEN t.pulled + 1 ELSE t.pulled
           stop == apply /\ AeCapReached(pulled, AeEffectiveMax(t.max))
           mp == IF apply THEN PutLWW(store[n], Wire(store[t.peer][key])).m ELSE store[n]
       IN  /\ store' = [store EXCEPT ![n] = mp]
           /\ disk' = [disk EXCEPT ![n] = mp]
           /\ ae' = [ae EXCEPT ![n] =
                        [t EXCEPT !.todo = @ \ {key}, !.pulled = pulled,
                                  !.pc = IF stop \/ t.todo = {key} THEN "idle" ELSE "run"]]
    /\ UNCHANGED <<cfg, ring, up, hints, op, gor, ch, net, aeNext, cnt, lwwVars, storeVars, hintVars, boot, fan, rq>>

\* Node n is stopped: its loop is gone, its store is what its files hold.
AeStop(n) ==
    /\ n \in up
    /\ cnt.crashes > 0
    /\ cnt' = [cnt EXCEPT !.crashes = @ - 1]
    /\ up' = up \ {n}
    /\ store' = [store EXCEPT ![n] = disk[n]]
    /\ aeNext' = [aeNext EXCEPT ![n] = 0]
    /\ ae' = [ae EXCEPT ![n] = AeTickIdle(@.max)]
    /\ UNCHANGED <<cfg, ring, disk, hints, op, gor, ch, net, lwwVars, storeVars, hintVars, boot, fan, rq>>

NextAE ==
    \/ \E n \in ClientNodes, rec \in AeRecs : AeWrite(n, rec)
    \/ \E n \in Nodes : AeBegin(n)
    \/ \E n \in Nodes, key \in AeKeys : AeStep(n, key)
    \/ \E n \in Nodes : AeStop(n)
    \/ \E n \in Nodes : Restart(n)

SpecAE == InitAE /\ [][NextAE]_vars

(* SpecAERejoin: n3 is down while n1 and n2 take writes, and is started; no
   node is stopped, the cap is one key a tick.  The ticker of every running
   node fires again and again, a tick runs to its end, and the stopped node
   is started. *)
InitAERejoin ==
    /\ ClusterStart(CfgThree, {"n3"}, Budget(MaxAeWrites, 0, 0, 0))
    /\ ae = [n \in Range(CfgThree.nodes) |-> AeTickIdle(1)]
    /\ boot = <<>>
    /\ fan = <<>>
    /\ rq = <<>>

NextAERejoin ==
    \/ \E n \in ClientNodes, rec \in AeRecs : AeWrite(n, rec)
    \/ \E n \in Nodes : AeBegin(n)
    \/ \E n \in Nodes, key \in AeKeys : AeStep(n, key)
    \/ \E n \in Nodes : Restart(n)

FairAE ==
    /\ \A n \in Range(CfgThree.nodes) :
          WF_vars(AeBegin(n)) /\ WF_vars(\E key \in AeKeys : AeStep(n, key))
    /\ WF_vars(\E n \in Nodes : Restart(n))

SpecAERejoin == InitAERejoin /\ [][NextAERejoin]_vars /\ FairAE

\* The loop of node n takes a turn over a key in this step; the key.
AeTurn(n) == ae[n].pc = "run" /\ n \in up' /\ ae'[n] # ae[n]
AeTurnKey(n) == CHOOSE k \in ae[n].todo : k \notin ae'[n].todo

\* C22: in a tick of node n against a peer that answers, a turn of the loop
\* fetches the key and applies the record with PutLWW if and only if the key
\* is absent from the local metadata snapshot or the peer's (ts, writer_id)
\* is strictly newer than the local one; otherwise the store is left alone;
\* in no turn does the version of a key of the store decrease.
AePullRule ==
    [][\A n \in Nodes :
          AeTurn(n) =>
             LET t == ae[n]
                 key == AeTurnKey(n)
                 wins == \/ key \notin DOMAIN t.local
                         \/ VersionLess(t.local[key], t.kres[key])
                 pulls == ae'[n].pulled = t.pulled + 1
             IN  /\ (t.peer \in up /\ key \in DOMAIN store[t.peer]) => (pulls <=> wins)
                 /\ pulls => store'[n] = PutLWW(store[n], Wire(store[t.peer][key])).m
                 /\ ~pulls => (ae'[n].pulled = t.pulled /\ store'[n] = store[n])
                 /\ \A k \in DOMAIN store[n] :
                       k \in DOMAIN store'[n] /\ VersionGeq(store'[n][k], store[n][k])]_vars

\* A tick has just passed over a key whose local version is newer than the
\* peer's without a pull, and another tick has pulled a key.
AePullRuleWitness ==
    \E n, x \in Nodes :
        /\ ae[n].pc = "idle"
        /\ \E k \in DOMAIN ae[n].kres \ ae[n].todo :
              k \in DOMAIN ae[n].local /\ VersionLess(ae[n].kres[k], ae[n].local[k])
        /\ ae[x].pulled > 0

\* Every node holds, for every key a node holds, a version >= that node's.
AeConverged ==
    \A n, p \in Nodes : \A k \in DOMAIN store[p] : Holds(n, store[p][k])

\* C23: the writes a node missed while it was down reach it through
\* anti-entropy alone: once the nodes are all running and the writes have
\* ended, from some tick on every node holds, for every key a peer holds, a
\* version >= the peer's, so all nodes hold the same version of every key.
AeConvergence == <>[](up = Nodes /\ AeConverged)

\* n3, down during the writes to n1 and n2, runs and holds what they hold.
AeConvergenceWitness ==
    /\ up = Nodes
    /\ cnt.ops = 0
    /\ DOMAIN store["n1"] # {}
    /\ DOMAIN store["n3"] = DOMAIN store["n1"]
    /\ AeConverged

\* C24: a tick pulls at most max_per_tick keys (200 when the flag is not
\* positive): the count of keys fetched and applied never passes the cap,
\* and the loop over the peer's keys is left when the cap is reached, the
\* keys not yet looked at staying for later ticks.
AeTickBound ==
    \A n \in Nodes :
        /\ ae[n].pulled <= AeEffectiveMax(ae[n].max)
        /\ ae[n].pulled = AeEffectiveMax(ae[n].max) => ae[n].pc = "idle"
        /\ ae[n].pulled <= Cardinality(DOMAIN ae[n].kres \ ae[n].todo)

\* A tick has ended at the cap with a key of the peer left that the node
\* does not hold.
AeTickBoundWitness ==
    \E n \in Nodes :
        /\ ae[n].pc = "idle"
        /\ ae[n].pulled = AeEffectiveMax(ae[n].max)
        /\ \E k \in ae[n].todo : k \notin DOMAIN store[n]

-----------------------------------------------------------------------------
(* SpecQuorum: the writes and the hand-off of SpecHandoff in a cluster that
   starts with one or with two of its three nodes stopped. *)

InitQuorum ==
    \E c \in {CfgThree, CfgDemo}, down \in {{"n3"}, {"n2", "n3"}} :
        ValidConfig(c) /\ ClusterInit(c, down, Budget(MaxHandoffOps, 0, 0, 0))

SpecQuorum == InitQuorum /\ [][NextHandoff]_vars

\* C25: PutRecord returns the quorum-unreached error (the handler answers
\* 503) exactly when fewer than W nodes acknowledged, and then the record is
\* still held, in a version >= it, by every node that did acknowledge it,
\* the coordinator's own store included: nothing is rolled back.
QuorumUnreachedKeeps ==
    PutDone =>
        /\ op.result = "quorum_unreached" <=> op.acks < cfg.w
        /\ op.result = "quorum_unreached" =>
              /\ op.status = 503
              /\ \A n \in op.ackers : Holds(n, op.rec)

\* Three nodes with N=3 and W=2, n2 and n3 stopped: the put at n1 has failed
\* for want of a quorum, with no fallback to try, and n1 holds the record.
QuorumUnreachedWitness ==
    /\ cfg = CfgDemo
    /\ up = {"n1"}
    /\ PutDone
    /\ op.result = "quorum_unreached"
    /\ op.fallbacks = <<>>
    /\ op.ackers = {"n1"}
    /\ Holds("n1", op.rec)

-----------------------------------------------------------------------------
(* SpecStartup: main from the parsed flags and configuration file to
   ListenAndServe, over configurations good and bad, and the requests the
   process serves afterwards. *)

\* The largest N, R and W, and the largest vnodes, of a configuration file.
MaxBootQuorum == 3
MaxBootVnodes == 1
\* Requests served by one process.
MaxBootRequests == 2

BootNodeLists == {<<>>, <<"n1">>, <<"n1", "n2">>, <<"n1", "n2", "n3">>}
BootIds == {"n1", "n3"}
BootCfgs ==
    [nodes : BootNodeLists, vnodes : -1..MaxBootVnodes,
     n : -1..MaxBootQuorum, r : -1..MaxBootQuorum, w : -1..MaxBootQuorum]

\* main: the search of the -id flag in the node list.
SelfFound(c, id) == \E i \in 1..Len(c.nodes) : c.nodes[i] = id

InitStartup ==
    /\ \E c \in BootCfgs, id \in BootIds :
          boot = [cfg |-> c, id |-> id, pc |-> "main", served |-> 0]
    /\ LwwIdle
    /\ StoreIdle
    /\ ClusterIdle
    /\ HintsIdle
    /\ ae = <<>>
    /\ fan = <<>>
    /\ rq = <<>>

\* main up to ListenAndServe: log.Fatalf on a bad configuration or an id
\* that is not in it; io tells whether the files of the data directory
\* load and the address binds (the other fatal exits of main).
BootMain(io) ==
    /\ boot # <<>>
    /\ boot.pc = "main"
    /\ boot' = [boot EXCEPT !.pc =
                   IF ~ValidConfig(boot.cfg) THEN "fatal"
                   ELSE IF ~SelfFound(boot.cfg, boot.id) THEN "fatal"
                   ELSE IF io THEN "serving" ELSE "fatal"]
    /\ UNCHANGED <<lwwVars, storeVars, clusterVars, hintVars, ae, fan, rq>>

\* The server answers a request.
BootServe ==
    /\ boot # <<>>
    /\ boot.pc = "serving"
    /\ boot.served < MaxBootRequests
    /\ boot' = [boot EXCEPT !.served = @ + 1]
    /\ UNCHANGED <<lwwVars, storeVars, clusterVars, hintVars, ae, fan, rq>>

NextStartup ==
    \/ \E io \in BOOLEAN : BootMain(io)
    \/ BootServe

SpecStartup == InitStartup /\ [][NextStartup]_vars

\* C26: unless 0 < R <= N, 0 < W <= N, N <= the number of configured nodes,
\* vnodes > 0 and the node's own id is in the configuration, the process
\* ends in a fatal error and never serves a request.
StartupValidation ==
    LET c == boot.cfg
        good == /\ 0 < c.r /\ c.r <= c.n
                /\ 0 < c.w /\ c.w <= c.n
                /\ c.n <= Len(c.nodes)
                /\ c.vnodes > 0
                /\ boot.id \in Range(c.nodes)
    IN  ~good => /\ boot.pc \in {"main", "fatal"}
                 /\ boot.served = 0

\* main has refused a configuration whose only fault is W > N.
StartupValidationWitness ==
    /\ boot.pc = "fatal"
    /\ boot.cfg.nodes = <<"n1", "n2", "n3">>
    /\ boot.id = "n1"
    /\ boot.cfg.vnodes = 1
    /\ boot.cfg.n = 2
    /\ boot.cfg.r = 2
    /\ boot.cfg.w = 3

-----------------------------------------------------------------------------
(* SpecRing: every node of a configuration builds its ring with ring.New
   and answers the same GetReplicas(key, N). *)

\* The largest N of a lookup.
MaxRingN == 4

RingNodeLists ==
    {<<"n1">>, <<"n1", "n1">>, <<"n1", "n2", "n3">>, <<"n3", "n1", "n2">>,
     <<"n1", "n2", "n3", "n4">>}
RingVnodes == {1, 2}
RingKeys == {"k1", "user", "cat"}

InitRing ==
    /\ \E nodes \in RingNodeLists, v \in RingVnodes, key \in RingKeys, n \in 1..MaxRingN :
          rq = [nodes |-> nodes, vnodes |-> v, key |-> key, n |-> n,
                ring |-> [x \in Range(nodes) |-> <<>>],
                asked |-> {},
                out |-> [x \in Range(nodes) |-> <<>>]]
    /\ LwwIdle
    /\ StoreIdle
    /\ ClusterIdle
    /\ HintsIdle
    /\ ae = <<>>
    /\ boot = <<>>
    /\ fan = <<>>

\* main at node x: rg := ring.New(cfg.Nodes, cfg.VNodes).
RingBuild(x) ==
    /\ rq # <<>>
    /\ x \in DOMAIN rq.ring
    /\ rq.ring[x] = <<>>
    /\ rq' = [rq EXCEPT !.ring[x] = RingNew(rq.nodes, rq.vnodes)]
    /\ UNCHANGED <<lwwVars, storeVars, clusterVars, hintVars, ae, boot, fan>>

\* Node x answers GetReplicas(key, N) on its ring.
RingLookup(x) ==
    /\ rq # <<>>
    /\ x \in DOMAIN rq.ring
    /\ rq.ring[x] # <<>>
    /\ x \notin rq.asked
    /\ rq' = [rq EXCEPT !.asked = @ \cup {x},
                        !.out[x] = GetReplicas(rq.ring[x], rq.key, rq.n)]
    /\ UNCHANGED <<lwwVars, storeVars, clusterVars, hintVars, ae, boot, fan>>

NextRing ==
    \/ \E x \in Range(rq.nodes) : RingBuild(x)
    \/ \E x \in Range(rq.nodes) : RingLookup(x)

SpecRing == InitRing /\ [][NextRing]_vars

\* The clockwise distance, in vnodes, from the first vnode with a token
\* >= hash(key) (the first vnode of the ring when there is none) to the
\* first vnode of node id.
RingDistance(r, key, id) ==
    LET geq == {i \in 1..Len(r) : r[i].token >= hash64(key)}
        first == IF geq = {} THEN 1 ELSE CHOOSE i \in geq : \A j \in geq : i <= j
        at(d) == r[((first - 1 + d) % Len(r)) + 1].node
        ds == {d \in 0..(Len(r) - 1) : at(d) = id}
    IN  CHOOSE d \in ds : \A e \in ds : d <= e

\* C27: GetReplicas(key, N), N > 0, returns exactly min(N, number of distinct
\* node ids) nodes, pairwise distinct, in clockwise order from the first
\* vnode with token >= hash(key), wrapping to index 0, and every node that
\* built its ring from the same configuration returns the same list.
RingReplicaSelection ==
    \A x \in rq.asked :
        LET out == rq.out[x]
            ids == Range(rq.nodes)
            want == IF rq.n < Cardinality(ids) THEN rq.n ELSE Cardinality(ids)
            dist(id) == RingDistance(rq.ring[x], rq.key, id)
        IN  /\ Len(out) = want
            /\ Range(out) \subseteq ids
            /\ \A i, j \in 1..Len(out) : i < j => dist(out[i]) < dist(out[j])
            /\ \A id \in ids \ Range(out) :
                  \A i \in 1..Len(out) : dist(out[i]) < dist(id)
            /\ \A y \in rq.asked : rq.out[y] = out

\* Four nodes with two vnodes each, key user (its hash lies between the
\* tokens of n3 and of n2), N = 3: every node has answered n2, n4, n1.
RingReplicaSelectionWitness ==
    /\ rq.nodes = <<"n1", "n2", "n3", "n4">>
    /\ rq.vnodes = 2
    /\ rq.key = "user"
    /\ rq.n = 3
    /\ rq.asked = Range(rq.nodes)
    /\ \A x \in rq.asked : rq.out[x] = <<"n2", "n4", "n1">>

-----------------------------------------------------------------------------
(* SpecFanout: the result channel of one PutRecord (phase 1) or one Get,
   the goroutines that send on it and the coordinator's receive loop. *)

\* The largest number of replicas a coordinator calls in parallel.
MaxFanout == 3

FanKinds == {"put", "get"}

\* The mutant of FanCap: the channel holds one result less.
FanCapOneLess(k) == k - 1

\* make(chan res, len(preferred)), make(chan result, len(replicas)).
FanCap(k) == k

\* A send on the channel can proceed: the buffer has room, or the
\* coordinator waits at its receive.
FanCanSend ==
    \/ Len(fan.buf) < fan.cap
    \/ fan.coord = "recv" /\ fan.buf = <<>>

\* The coordinator's loop after it has received result ok: PutRecord returns
\* at W acks and leaves the loop after len(preferred) results; Get leaves
\* the loop at R successes or after len(replicas) results.
FanReceived(ok) ==
    LET acks == IF ok THEN fan.acks + 1 ELSE fan.acks
        i == fan.i + 1
    IN  [fan EXCEPT !.acks = acks, !.i = i,
                    !.coord = IF acks >= fan.need \/ i >= fan.k
                              THEN "returned" ELSE "recv"]

InitFanout ==
    /\ \E kind \in FanKinds, k \in 1..MaxFanout :
          \E need \in 1..k :
              fan = [kind |-> kind, k |-> k, need |-> need, cap |-> FanCap(k),
                     buf |-> <<>>, g |-> [j \in 1..k |-> "call"],
                     res |-> [j \in 1..k |-> FALSE],
                     coord |-> "recv", i |-> 0, acks |-> 0, late |-> 0]
    /\ LwwIdle
    /\ StoreIdle
    /\ ClusterIdle
    /\ HintsIdle
    /\ ae = <<>>
    /\ boot = <<>>
    /\ rq = <<>>

\* Goroutine j: replicaPut or replicaGet returns, with or without an error
\* (at the latest when the context of the call expires).
FanCall(j, ok) ==
    /\ fan # <<>>
    /\ j \in DOMAIN fan.g
    /\ fan.g[j] = "call"
    /\ fan' = [fan EXCEPT !.g[j] = "send", !.res[j] = ok]
    /\ UNCHANGED <<lwwVars, storeVars, clusterVars, hintVars, ae, boot, rq>>

\* Goroutine j: ch <- result, and the end of the goroutine.
FanSend(j) ==
    /\ fan # <<>>
    /\ j \in DOMAIN fan.g
    /\ fan.g[j] = "send"
    /\ FanCanSend
    /\ LET f == IF Len(fan.buf) < fan.cap
                THEN [fan EXCEPT !.buf = Append(@, fan.res[j])]
                ELSE FanReceived(fan.res[j])
       IN  fan' = [f EXCEPT !.g[j] = "done",
                            !.late = IF fan.coord = "returned" THEN @ + 1 ELSE @]
    /\ UNCHANGED <<lwwVars, storeVars, clusterVars, hintVars, ae, boot, rq>>

\* The coordinator: r := <-ch and the rest of the loop body.
FanRecv ==
    /\ fan # <<>>
    /\ fan.coord = "recv"
    /\ fan.buf # <<>>
    /\ fan' = [FanReceived(Head(fan.buf)) EXCEPT !.buf = Tail(fan.buf)]
    /\ UNCHANGED <<lwwVars, storeVars, clusterVars, hintVars, ae, boot, rq>>

NextFanout ==
    \/ \E j \in 1..MaxFanout, ok \in BOOLEAN : FanCall(j, ok)
    \/ \E j \in 1..MaxFanout : FanSend(j)
    \/ FanRecv

\* A goroutine that can run does run; nothing is assumed of the coordinator.
FairFanout ==
    \A j \in 1..MaxFanout :
        /\ WF_vars(\E ok \in BOOLEAN : FanCall(j, ok))
        /\ WF_vars(FanSend(j))

SpecFanout == InitFanout /\ [][NextFanout]_vars /\ FairFanout

\* C28: every goroutine of PutRecord and of Get that has its result can
\* send it at once, whether or not the coordinator has returned, and in
\* every interleaving all of them end.
NoLeakedFanout ==
    /\ [](\A j \in DOMAIN fan.g : fan.g[j] = "send" => FanCanSend)
    /\ <>[](\A j \in DOMAIN fan.g : fan.g[j] = "done")

\* A PutRecord with three preferred replicas and W = 1 has returned after
\* the first ack; the two other goroutines have sent their results after
\* that and ended, and their results stay in the channel.
NoLeakedFanoutWitness ==
    /\ fan.kind = "put"
    /\ fan.k = 3
    /\ fan.need = 1
    /\ fan.coord = "returned"
    /\ fan.i = 1
    /\ fan.late = 2
    /\ Len(fan.buf) = 2
    /\ \A j \in DOMAIN fan.g : fan.g[j] = "done"

-----------------------------------------------------------------------------
(* PutLWW and the WAL, SnapshotAndResetWAL and the writers (SpecStore). *)

\* What a PutLWW(rec) that took the step did to the map and to the WAL file:
\* one line, the winner, when the stored record of the key changed, and
\* nothing at all when it did not.
AppendedExactlyOnChange(rec) ==
    LET changed == rec.key \notin DOMAIN m \/ m'[rec.key] # m[rec.key]
    IN  IF changed
        THEN walFile' = Append(walFile, MarshalRecord(m'[rec.key]))
        ELSE m' = m /\ walFile' = walFile

\* C29 (as stated): PutLWW appends one entry, the winner, to the WAL exactly
\* when the stored record of the key changes, and leaves the map and the WAL
\* alone when the incoming record loses or equals the current one.
WalAppendExactlyOnChange ==
    [][\A rec \in StoreRecs :
          (\E ok \in BOOLEAN : StorePutLWW(rec, ok)) => AppendedExactlyOnChange(rec)]_vars

\* The same for the calls whose WAL.Append succeeded (what is left of C29
\* once the dropped append error of PutLWW is set aside).
WalAppendExactlyOnChangeAppendsOk ==
    [][\A rec \in StoreRecs :
          StorePutLWW(rec, TRUE) => AppendedExactlyOnChange(rec)]_vars

\* The stored record of key k is in the snapshot file or in the WAL.
WrittenDown(k) ==
    LET s == LoadSnapshot(snapFile)
    IN  \/ k \in DOMAIN s /\ RecEq(s[k], m[k])
        \/ \E i \in 1..Len(walFile) : RecEq(UnmarshalRecord(walFile[i]), m[k])

\* C30 (as stated, for runs without a kill and without a failed WAL append):
\* whenever no SnapshotAndResetWAL is in progress, every record PutLWW has
\* accepted is in the snapshot file (the write came before the snapshot) or
\* in the WAL (it came after the truncation); none is absent from both.
SnapshotExcludesWriters ==
    (running /\ snapPc = "idle" /\ hist.kills = 0 /\ ~hist.appendFailed)
    => \A k \in DOMAIN m : WrittenDown(k)

\* The same for the runs whose SnapshotAndResetWAL calls all returned nil:
\* the mutual exclusion of PutLWW and SnapshotAndResetWAL by s.mu.
SnapshotExcludesWritersNoSnapErr ==
    (running /\ snapPc = "idle" /\ hist.kills = 0 /\ ~hist.appendFailed /\ ~hist.snapErr)
    => \A k \in DOMAIN m : WrittenDown(k)

-----------------------------------------------------------------------------
(* SpecTick: the ticks of the hand-off loop of one node (cmd/node/main.go),
   each taken target by target and record by record, with Add calls of the
   /internal/put handler arriving at the manager meanwhile, and the stores
   of the targets the loop posts to. *)

\* Add calls and ticks of one run.
MaxTickAdds == 3
MaxTicks == 2

TickRecs ==
    {Record(ClusterKey, "a", t, "n1", FALSE) : t \in 1..MaxTs}
        \cup {Record("k1", "a", 1, "n1", FALSE)}
TickPairs == {<<t, k>> : t \in HintTargets, k \in {ClusterKey, "k1"}}

\* The mutant of TickAfterPost: DeleteIfSame is called whatever the post returned.
TickAfterPostAlways(hm, t, r, ok) == DeleteIfSame(hm, t, r.key, r)

\* The hand-off loop after PostJSON returned: if err == nil { hm.DeleteIfSame }.
TickAfterPost(hm, t, r, ok) == IF ok THEN DeleteIfSame(hm, t, r.key, r) ELSE hm

TickIdle == [pc |-> "idle", targets |-> {}, target |-> "", recs |-> {}, rec |-> <<>>]

InitTick ==
    /\ hintM = EmptyMap
    /\ hintWal = <<>>
    /\ hintWalFile = TRUE
    /\ hintTmp = <<>>
    /\ hintPend = {}
    /\ hintLoop = TickIdle
    /\ hintCnt = [adds |-> MaxTickAdds, ticks |-> MaxTicks]
    /\ hintHist = [acked |-> {}, attempts |-> [k \in TickPairs |-> 0], failed |-> FALSE]
    /\ cfg = <<>> /\ ring = <<>> /\ up = {} /\ disk = <<>> /\ hints = <<>>
    /\ op = <<>> /\ gor = {} /\ ch = <<>> /\ net = {} /\ aeNext = <<>> /\ cnt = <<>>
    /\ store = [t \in HintTargets |-> EmptyMap]
    /\ LwwIdle
    /\ StoreIdle
    /\ AuxIdle

\* Manager.Add, called by the /internal/put handler or by replicaPut.
TickAdd(targetID, rec) ==
    /\ hintCnt.adds > 0
    /\ hintCnt' = [hintCnt EXCEPT !.adds = @ - 1]
    /\ LET hm2 == HintsAdd(hintM, targetID, rec)
       IN  /\ hintM' = hm2
           /\ hintWal' = IF hm2 # hintM
                         THEN appendWAL(hintWal, hintWalFile, AddEntry(targetID, rec), TRUE)
                         ELSE hintWal
    /\ UNCHANGED <<hintWalFile, hintTmp, hintPend, hintLoop, hintHist, lwwVars, storeVars, clusterVars, auxVars>>

\* The ticker fires: targets := hm.Targets().
TickBegin ==
    /\ hintLoop.pc = "idle"
    /\ hintCnt.ticks > 0
    /\ hintCnt' = [hintCnt EXCEPT !.ticks = @ - 1]
    /\ hintLoop' = [TickIdle EXCEPT !.pc = "targets",
                                    !.targets = {k[1] : k \in DOMAIN hintM}]
    /\ hintHist' = [hintHist EXCEPT !.attempts = [k \in TickPairs |-> 0]]
    /\ UNCHANGED <<hintM, hintWal, hintWalFile, hintTmp, hintPend, lwwVars, storeVars, clusterVars, auxVars>>

\* The next target of the tick: recs := hm.RecordsFor(tid).
TickTarget(tid) ==
    /\ hintLoop.pc = "targets"
    /\ tid \in hintLoop.targets
    /\ LET recs == {hintM[k] : k \in {x \in DOMAIN hintM : x[1] = tid}}
       IN  hintLoop' = [hintLoop EXCEPT !.targets = @ \ {tid},
                                        !.target = tid,
                                        !.recs = recs,
                                        !.pc = IF recs = {} THEN "targets" ELSE "recs"]
    /\ UNCHANGED <<hintM, hintWal, hintWalFile, hintTmp, hintPend, hintCnt, hintHist, lwwVars, storeVars, clusterVars, auxVars>>

\* The next record of the target: the post to its /internal/put is sent.
TickSend(rec) ==
    /\ hintLoop.pc = "recs"
    /\ rec \in hintLoop.recs
    /\ hintLoop' = [hintLoop EXCEPT !.pc = "post", !.rec = <<rec>>, !.recs = @ \ {rec}]
    /\ hintHist' = [hintHist EXCEPT !.attempts[<<hintLoop.target, rec.key>>] = @ + 1]
    /\ UNCHANGED <<hintM, hintWal, hintWalFile, hintTmp, hintPend, hintCnt, lwwVars, storeVars, clusterVars, auxVars>>

\* PostJSON returns: without an error after the target's handler ran PutLWW
\* and answered; with an error when the target is down or the deadline
\* passed (the handler may have run all the same).  Then DeleteIfSame on
\* success, with its del entry.
TickPosted(ok, applied) ==
    /\ hintLoop.pc = "post"
    /\ ok => applied
    /\ LET t == hintLoop.target
           r == hintLoop.rec[1]
           hm2 == TickAfterPost(hintM, t, r, ok)
       IN  /\ store' = IF applied
                       THEN [store EXCEPT ![t] = PutLWW(@, Wire(r)).m]
                       ELSE store
           /\ hintM' = hm2
           /\ hintWal' = IF hm2 # hintM
                         THEN appendWAL(hintWal, hintWalFile, DelEntry(t, r.key, r), TRUE)
                         ELSE hintWal
           /\ hintHist' = [hintHist EXCEPT
                              !.acked = IF ok
                                        THEN @ \cup {[target |-> t, key |-> r.key, ts |-> r.ts,
                                                      writer_id |-> r.writer_id]}
                                        ELSE @,
                              !.failed = @ \/ ~ok]
           /\ hintLoop' = [hintLoop EXCEPT !.rec = <<>>,
                                           !.pc = IF hintLoop.recs = {} THEN "targets" ELSE "recs"]
    /\ UNCHANGED <<hintWalFile, hintTmp, hintPend, hintCnt, cfg, ring, up, disk, hints, op, gor, ch, net, aeNext, cnt, lwwVars, storeVars, auxVars>>

\* Every target of the tick has been served: the loop waits for the ticker.
TickEnd ==
    /\ hintLoop.pc = "targets"
    /\ hintLoop.targets = {}
    /\ hintLoop' = TickIdle
    /\ UNCHANGED <<hintM, hintWal, hintWalFile, hintTmp, hintPend, hintCnt, hintHist, lwwVars, storeVars, clusterVars, auxVars>>

NextTick ==
    \/ \E t \in HintTargets, rec \in TickRecs : TickAdd(t, rec)
    \/ TickBegin
    \/ \E t \in HintTargets : TickTarget(t)
    \/ \E rec \in TickRecs : TickSend(rec)
    \/ \E ok, applied \in BOOLEAN : TickPosted(ok, applied)
    \/ TickEnd

SpecTick == InitTick /\ [][NextTick]_vars

\* C31: a hint leaves the manager only when its target has acknowledged a
\* put of a record of the same (ts, writer_id) and holds that version or a
\* newer one; a post that returned an error leaves every hint in place; and
\* no (target, key) is posted more than once in a tick.
HintRemovedOnlyAfterAck ==
    /\ [][\A k \in DOMAIN hintM :
             k \notin DOMAIN hintM' =>
                /\ [target |-> k[1], key |-> k[2], ts |-> hintM[k].ts,
                    writer_id |-> hintM[k].writer_id] \in hintHist'.acked
                /\ k[2] \in DOMAIN store'[k[1]]
                /\ VersionGeq(store'[k[1]][k[2]], hintM[k])]_vars
    /\ [][(\E applied \in BOOLEAN : TickPosted(FALSE, applied)) => hintM' = hintM]_vars
    /\ [](\A k \in TickPairs : hintHist.attempts[k] <= 1)

\* A post has failed and its hint is still held, and the hint of cat for n2
\* is gone after n2 acknowledged it and holds the record.
HintRemovedOnlyAfterAckWitness ==
    /\ hintHist.failed
    /\ <<"n3", ClusterKey>> \in DOMAIN hintM
    /\ <<"n2", ClusterKey>> \notin DOMAIN hintM
    /\ \E a \in hintHist.acked : a.target = "n2" /\ a.key = ClusterKey
    /\ ClusterKey \in DOMAIN store["n2"]

-----------------------------------------------------------------------------
(* Replica puts with and without hint_for (SpecSloppy). *)

\* C32: when a node acknowledges a replica put that carries hint_for, its
\* store holds the record (or a newer version) and its manager holds a hint
\* of that version or a newer one for hint_for; an acknowledged replica put
\* without hint_for leaves every manager as it was, and so does every step
\* that is not a replica put with hint_for.
ReplicaPutWithHint ==
    [][/\ (op.kind = "put" /\ op.phase = "p2" /\ op'.acks = op.acks + 1) =>
             LET call == op'.sent[Len(op'.sent)]
                 key == op.rec.key
             IN  /\ key \in DOMAIN store'[call.fb]
                 /\ VersionGeq(store'[call.fb][key], op.rec)
                 /\ call.hintFor # "" =>
                       /\ <<call.hintFor, key>> \in DOMAIN hints'[call.fb]
                       /\ VersionGeq(hints'[call.fb][<<call.hintFor, key>>], op.rec)
                 /\ call.hintFor = "" => hints' = hints
       /\ hints' # hints =>
             /\ op.kind = "put" /\ op.phase = "p2"
             /\ Len(op'.sent) = Len(op.sent) + 1
             /\ op'.sent[Len(op'.sent)].hintFor # ""]_vars

\* A put coordinated by n2 whose preferred replica n3 was down: n2, the
\* first fallback, has written to itself with hint_for n3 and holds the hint.
ReplicaPutWithHintWitness ==
    /\ PutDone
    /\ op.coord = "n2"
    /\ Len(op.sent) > 0
    /\ op.sent[1] = [fb |-> "n2", hintFor |-> "n3"]
    /\ "n2" \in op.ackers
    /\ <<"n3", op.key>> \in DOMAIN hints["n2"]
    /\ Holds("n2", op.rec)

-----------------------------------------------------------------------------
(* SpecFallbackRead: writes that go to the fallback, and reads, in a
   three-node cluster with N=2 and W=1 whose preferred replicas of the key
   may be stopped at the start; no hand-off and no anti-entropy. *)

InitFallbackRead ==
    \E down \in {{"n3"}, {"n1", "n3"}} :
        ValidConfig(CfgWeakWrite) /\ ClusterInit(CfgWeakWrite, down, Budget(MaxReadOps, 0, 0, 0))

NextFallbackRead ==
    \/ \E c \in ClientNodes, v \in PutValues, ts \in 1..MaxTs : ClientPut(c, v, ts)
    \/ \E c \in ClientNodes : ClientGet(c)
    \/ \E n \in Nodes : ReplicaPutRun(n)
    \/ PutRecv
    \/ PutFallback
    \/ \E n \in Nodes : ReplicaGetRun(n)
    \/ GetRecv
    \/ \E msg \in net : NetDeliver(msg)
    \/ \E msg \in net : NetDrop(msg)
    \/ \E n \in Nodes : Restart(n)

SpecFallbackRead == InitFallbackRead /\ [][NextFallbackRead]_vars

\* The first N nodes of the full ring walk of the key.
PreferredOf(key) ==
    LET order == GetReplicas(ring, key, NumNodes)
    IN  SubSeq(order, 1, IF cfg.n < Len(order) THEN cfg.n ELSE Len(order))

\* C33: the replicas Get calls are GetReplicas(key, N), which is the prefix
\* of length N of GetReplicas(key, NumNodes) that PutRecord takes as its
\* preferred replicas; every call and every response of a Get is of one of
\* them, and the winner of a Get is a record one of them answered.
ReadsUsePreferredOnly ==
    /\ op.kind \in {"get", "put"} =>
          /\ op.preferred = PreferredOf(op.key)
          /\ op.preferred = GetReplicas(ring, op.key, cfg.n)
    /\ op.kind = "get" =>
          /\ gor \subseteq Range(PreferredOf(op.key))
          /\ \A j \in 1..Len(ch) : ch[j].node \in Range(PreferredOf(op.key))
          /\ \A j \in 1..Len(op.resps) : op.resps[j].node \in Range(PreferredOf(op.key))
          /\ Len(op.winner) > 0 =>
                \E j \in 1..Len(op.resps) :
                    op.resps[j].found /\ op.resps[j].rec[1] = op.winner[1]

\* The fallback n2 holds the key, written while n1 and n3 were stopped; both
\* are running again and hold nothing, and a Get at n2 has asked them, found
\* nothing and answered 404.
ReadsUsePreferredOnlyWitness ==
    /\ GetDone
    /\ op.coord = "n2"
    /\ op.result = "ok"
    /\ op.status = 404
    /\ Len(op.resps) = 2
    /\ ClusterKey \in DOMAIN store["n2"]
    /\ ClusterKey \notin DOMAIN store["n1"]
    /\ ClusterKey \notin DOMAIN store["n3"]
    /\ up = Nodes

-----------------------------------------------------------------------------
(* A SnapshotAndResetWAL that returns an error (SpecStore). *)

\* C34 (as stated, for runs without a failed WAL append): when
\* SnapshotAndResetWAL has returned an error from writing or replacing the
\* snapshot file, the snapshot file and the WAL on disk still reconstruct
\* the store held in memory.
SnapshotFailureKeepsRecovery ==
    ( /\ running /\ snapPc = "idle"
      /\ hist.lastOp \in {"SnapWriteTmp", "SnapRename"}
      /\ ~hist.appendFailed )
    => DumpEq(Recover(snapFile, walFile), DumpAll(m))

\* The part of C34 the code keeps: the failing step of writeFileAtomic
\* leaves the store and the WAL file as they were.
SnapshotFailureKeepsWalAndStore ==
    [][(SnapWriteTmp(FALSE) \/ SnapRename(FALSE)) => (m' = m /\ walFile' = walFile /\ walF' = walF)]_vars

-----------------------------------------------------------------------------
(* PutRecord returning from phase 1 (SpecFallbackRead). *)

\* PutRecord returns nil out of its phase-1 loop.
PhaseOneReturn ==
    op.kind = "put" /\ op.phase = "p1" /\ op'.phase = "done" /\ op'.result = "ok"

\* After a put that returned out of phase 1, the preferred replica n, which
\* had not acknowledged, comes to hold the record in this step.
LateArrival(n) ==
    /\ PutDone /\ op.result = "ok" /\ op.sent = <<>>
    /\ op' = op
    /\ n \in Range(op.preferred) \ op.ackers
    /\ ~Holds(n, op.rec)
    /\ op.key \in DOMAIN store'[n]
    /\ VersionGeq(store'[n][op.key], op.rec)

-----------------------------------------------------------------------------
(* Anti-entropy and the ring (SpecAERejoin). *)

\* The nodes that are not among the N preferred replicas of the key.
NotPreferred(key) == Nodes \ Range(GetReplicas(ring, key, cfg.n))

\* C36: anti-entropy takes no account of the ring: a turn of the loop of
\* node n over a key the answering peer holds, missing or older locally,
\* leaves n holding the key at the peer's version or a newer one, whether
\* or not n is one of the N preferred replicas of the key; and when the
\* loops have run out of work every node of the cluster stores every key
\* any node stores, the nodes that are not preferred replicas included.
AeIgnoresOwnership ==
    /\ [][\A n \in Nodes :
             AeTurn(n) =>
                LET t == ae[n]
                    key == AeTurnKey(n)
                IN  (/\ t.peer \in up
                     /\ key \in DOMAIN store[t.peer]
                     /\ NeedPull(t.local, key, t.kres[key]))
                    => /\ key \in DOMAIN store'[n]
                       /\ VersionGeq(store'[n][key], store[t.peer][key])]_vars
    /\ <>[](\A p \in Nodes : \A k \in DOMAIN store[p] :
               \A n \in Nodes : k \in DOMAIN store[n])

\* n2, which is not a preferred replica of k1 (they are n1 and n3), did not
\* hold k1 when its tick began, and holds it after the one pull of the tick.
AeIgnoresOwnershipWitness ==
    /\ "n2" \in NotPreferred("k1")
    /\ ae["n2"].pulled = 1
    /\ DOMAIN ae["n2"].kres = {"k1"}
    /\ "k1" \notin DOMAIN ae["n2"].local
    /\ "k1" \in DOMAIN store["n2"]
    /\ \A n \in Nodes : "k1" \in DOMAIN store[n]

-----------------------------------------------------------------------------
(* SpecVerbatim: the records of a cluster whose clients also put empty
   values, which the JSON encoding omits and the receiver decodes to nil. *)

\* The bodies of the PUT requests: io.ReadAll of an empty body and of "a".
VerbatimValues == {EmptyValue, "a"}

InitVerbatim ==
    /\ ValidConfig(CfgThree)
    /\ ClusterInit(CfgThree, {}, Budget(MaxOps, MaxCrashes, 0, MaxAeTicks))

NextVerbatim ==
    \/ \E c \in ClientNodes, v \in VerbatimValues, ts \in 1..MaxTs : ClientPut(c, v, ts)
    \/ \E c \in ClientNodes, ts \in 1..MaxTs : ClientDelete(c, ts)
    \/ \E c \in ClientNodes : ClientGet(c)
    \/ \E n \in Nodes : ReplicaPutRun(n)
    \/ PutRecv
    \/ PutFallback
    \/ \E n \in Nodes : ReplicaGetRun(n)
    \/ GetRecv
    \/ \E msg \in net : NetDeliver(msg)
    \/ \E msg \in net : NetDrop(msg)
    \/ \E n \in Nodes, target \in Nodes : HandoffPost(n, target, ClusterKey)
    \/ \E msg \in net : HandoffDone(msg)
    \/ \E n \in Nodes : AeTick(n)
    \/ \E n \in Nodes : Crash(n)
    \/ \E n \in Nodes : Restart(n)

SpecVerbatim == InitVerbatim /\ [][NextVerbatim]_vars

\* Two records equal in key, value (as bytes), ts, writer_id and deleted.
SameRecord(a, b) ==
    /\ a.key = b.key
    /\ BytesEqual(a.value, b.value)
    /\ a.ts = b.ts
    /\ a.writer_id = b.writer_id
    /\ a.deleted = b.deleted

RecsOfMaps(f) == UNION {{f[n][k] : k \in DOMAIN f[n]} : n \in DOMAIN f}

\* The records of the stores and of the hint managers.
StoredRecs == RecsOfMaps(store) \cup RecsOfMaps(hints)

\* The records on their way: in the files of the nodes, in the bodies of
\* the requests and responses in flight, and in the hands of the coordinator.
InFlightRecs ==
    RecsOfMaps(disk) \cup {msg.rec : msg \in net}
    \cup (IF op.kind = "put" THEN {op.rec} ELSE {})
    \cup (IF op.kind = "get"
          THEN UNION {Range(ch[j].rec) : j \in 1..Len(ch)}
               \cup UNION {Range(op.resps[j].rec) : j \in 1..Len(op.resps)}
               \cup Range(op.winner)
          ELSE {})

SystemRecs == StoredRecs \cup InFlightRecs

\* Record r is what Coordinator.Put or Coordinator.Delete of node c builds.
CoordinatorMade(r, c) ==
    /\ r.key = ClusterKey
    /\ r.ts \in 1..MaxTs
    /\ r.writer_id = c
    /\ \/ ~r.deleted /\ \E v \in VerbatimValues : BytesEqual(r.value, v)
       \/ r.deleted /\ BytesEqual(r.value, NilValue)

\* In this step a coordinator builds record r and hands it to PutRecord.
CreatedNow(r) ==
    /\ OpFree
    /\ op'.kind = "put" /\ op'.phase # "idle" /\ op' # op
    /\ r = op'.rec
    /\ op'.coord \in ClientNodes
    /\ CoordinatorMade(r, op'.coord)

\* C37: records propagate verbatim. Every record of a store or of a hint
\* manager (and every record in flight) has the key, value, ts, writer_id
\* and deleted flag of a record a coordinator built in Put or Delete, with
\* the id of that coordinator as writer_id: no step brings about a record
\* other than the one a coordinator builds in that step or one equal in
\* all five fields to a record the system already holds, so that replica
\* puts, hint delivery, read-repair and anti-entropy change none of them.
RecordsVerbatim ==
    /\ [](\A r \in SystemRecs : \E c \in ClientNodes : CoordinatorMade(r, c))
    /\ [][\A r \in SystemRecs' :
             \/ \E q \in SystemRecs : SameRecord(r, q)
             \/ CreatedNow(r)]_vars

\* The empty value n1 put is held by n1 as it was read from the request, by
\* n3 as decoded from the replica put (nil), same ts and writer_id, and n2
\* holds a record of n1 it got by anti-entropy or as a hint.
RecordsVerbatimWitness ==
    /\ ClusterKey \in DOMAIN store["n1"]
    /\ ClusterKey \in DOMAIN store["n3"]
    /\ store["n1"][ClusterKey].value = EmptyValue
    /\ store["n3"][ClusterKey].value = NilValue
    /\ ~store["n3"][ClusterKey].deleted
    /\ SameRecord(store["n1"][ClusterKey], store["n3"][ClusterKey])
    /\ store["n1"][ClusterKey].writer_id = "n1"
    /\ \E r \in RecsOfMaps([n \in {"n2"} |-> store[n]]) \cup RecsOfMaps([n \in {"n2"} |-> hints[n]]) :
          r.writer_id = "n1"

-----------------------------------------------------------------------------
(* SpecReadYourWrite: strict quorums (R + W > N), no process dies and no
   append fails; the client is answered 204 and reads the key afterwards. *)

InitReadYourWrite ==
    \E c \in {CfgThree, CfgDemo}, down \in {{}, {"n3"}} :
        /\ ValidConfig(c)
        /\ cfg = c
        /\ ring = RingNew(cfg.nodes, cfg.vnodes)
        /\ up = Range(cfg.nodes) \ down
        /\ store = [n \in Range(cfg.nodes) |-> EmptyMap]
        /\ disk = [n \in Range(cfg.nodes) |-> EmptyMap]
        /\ hints = [n \in Range(cfg.nodes) |-> EmptyMap]
        /\ op = OpIdle
        /\ gor = {}
        /\ ch = <<>>
        /\ net = {}
        /\ aeNext = [n \in Range(cfg.nodes) |-> 0]
        /\ cnt = Budget(MaxOps, 0, 0, 0)
        /\ m = EmptyMap
        /\ walFile = <<>>
        /\ walF = FALSE
        /\ snapFile = [exists |-> FALSE, data |-> EmptyMap]
        /\ tmpFile = [exists |-> FALSE, data |-> EmptyMap]
        /\ running = FALSE
        /\ snapPc = "idle"
        /\ snapB = EmptyMap
        /\ calls = 0
        /\ hist = [lastOp |-> "none", answered |-> {}]
        /\ LwwIdle
        /\ HintsIdle
        /\ AuxIdle

\* The handler of PUT/DELETE /kv/{key} answers 204: PutRecord returned nil.
\* The answer is recorded when every ack came from a preferred replica.
PutAnswered ==
    /\ op.kind = "put" /\ op.phase = "done" /\ op.result = "ok"
    /\ op.ackers \subseteq Range(op.preferred)
    /\ op.rec \notin hist.answered
    /\ hist' = [hist EXCEPT !.answered = @ \cup {op.rec}]
    /\ UNCHANGED <<clusterVars, lwwVars, hintVars, auxVars,
                   m, walFile, walF, snapFile, tmpFile, running, snapPc, snapB, calls>>

NextReadYourWrite ==
    \/ \E c \in ClientNodes, v \in PutValues, ts \in 1..MaxTs : ClientPut(c, v, ts)
    \/ \E c \in ClientNodes, ts \in 1..MaxTs : ClientDelete(c, ts)
    \/ \E c \in ClientNodes : ClientGet(c)
    \/ \E n \in Nodes : ReplicaPutRun(n)
    \/ PutRecv
    \/ PutFallback
    \/ \E n \in Nodes : ReplicaGetRun(n)
    \/ GetRecv
    \/ \E msg \in net : NetDeliver(msg)
    \/ \E msg \in net : NetDrop(msg)
    \/ \E n \in Nodes : Restart(n)
    \/ PutAnswered

SpecReadYourWrite == InitReadYourWrite /\ [][NextReadYourWrite]_vars

GetOk == op.kind = "get" /\ op.phase = "done" /\ op.result = "ok"

\* C38: read-after-write under strict quorum. With R + W > N, a Get that
\* succeeds after PutRecord of r succeeded with every one of its W acks from
\* a preferred replica resolves a winner of version >= r (a tombstone
\* included), no replica having lost its state.
ReadAfterWrite ==
    (cfg.r + cfg.w > cfg.n /\ GetOk) =>
        \A r \in hist.answered :
            Len(op.winner) = 1 /\ VersionGeq(op.winner[1], r)

\* With N = 3 and R = W = 2 a put of ts 2 by n2 was answered 204, and a Get
\* whose first two answers came from n3, which does not hold the record, and
\* from another node, has resolved it.
ReadAfterWriteWitness ==
    /\ cfg = CfgDemo
    /\ GetOk
    /\ \E r \in hist.answered :
          /\ r.ts = MaxTs /\ r.writer_id = "n2"
          /\ op.winner = <<r>>
          /\ ~Holds("n3", r)
          /\ Len(op.resps) = 2
          /\ \E j \in 1..2 : op.resps[j].node = "n3"

-----------------------------------------------------------------------------
(* SpecEqualVersion: a coordinator that builds two records of one key in
   the same nanosecond (a put and a delete of equal ts and writer_id),
   replicas that miss the first, reads, hand-off and anti-entropy. *)

\* The clock readings (UnixNano) of the coordinators of SpecEqualVersion.
MaxEqualTs == 1

InitEqualVersion ==
    \E down \in {{}, {"n1", "n3"}} :
        /\ ValidConfig(CfgWeakWrite)
        /\ ClusterInit(CfgWeakWrite, down, Budget(MaxReadOps, 0, 0, MaxAeTicks))

NextEqualVersion ==
    \/ \E c \in ClientNodes, v \in PutValues, ts \in 1..MaxEqualTs : ClientPut(c, v, ts)
    \/ \E c \in ClientNodes, ts \in 1..MaxEqualTs : ClientDelete(c, ts)
    \/ \E c \in ClientNodes : ClientGet(c)
    \/ \E n \in Nodes : ReplicaPutRun(n)
    \/ PutRecv
    \/ PutFallback
    \/ \E n \in Nodes : ReplicaGetRun(n)
    \/ GetRecv
    \/ \E msg \in net : NetDeliver(msg)
    \/ \E msg \in net : NetDrop(msg)
    \/ \E n \in Nodes, target \in Nodes : HandoffPost(n, target, ClusterKey)
    \/ \E msg \in net : HandoffDone(msg)
    \/ \E n \in Nodes : AeTick(n)
    \/ \E n \in Nodes : Restart(n)

SpecEqualVersion == InitEqualVersion /\ [][NextEqualVersion]_vars

\* Nodes a and b hold records of the key of equal (ts, writer_id) that
\* differ in value or in the deleted flag.
EqualVersionDiffer(a, b) ==
    /\ ClusterKey \in DOMAIN store[a]
    /\ ClusterKey \in DOMAIN store[b]
    /\ sameVersion(store[a][ClusterKey], store[b][ClusterKey])
    /\ ~RecEq(store[a][ClusterKey], store[b][ClusterKey])

\* No read-repair write of a record of their version is sent to a or b.
NoRepairBetween(a, b) ==
    \A msg \in net' \ net :
        (msg.kind = "repair" /\ msg.to \in {a, b})
            => ~sameVersion(msg.rec, store[msg.to][ClusterKey])

\* A read-repair write goes to a or b only when the answer that node gave
\* to the Get lacked the key or was of another version than the winner.
NoRepairOfReadVersion(a, b) ==
    \A msg \in net' \ net :
        (msg.kind = "repair" /\ msg.to \in {a, b})
            => \E j \in 1..Len(op'.resps) :
                  /\ op'.resps[j].node = msg.to
                  /\ \/ ~op'.resps[j].found
                     \/ ~sameVersion(op'.resps[j].rec[1], msg.rec)

=============================================================================
